---- MODULE Spec2Model ----
(***************************************************************************)
(* ThinkingModels: the query orchestration core.                           *)
(*                                                                         *)
(*   src/src/core/query_processor.py  QueryProcessor.process_query         *)
(*   src/src/core/llm_client.py       OpenAIClient / GeminiClient          *)
(*                                                                         *)
(* Python strings are sequences of one-character strings, so that slicing, *)
(* stripping, prefix tests and JSON decoding are computed the way the code *)
(* computes them.                                                          *)
(***************************************************************************)
EXTENDS Integers, Sequences, FiniteSets, TLC

\* None: a one-element sequence no str equals (the elements of a str are
\* single characters)
NoneVal == <<"None">>

\* the character U+0060 (backtick), which a TLA+ string literal cannot hold
BQ == "backtick"

\* ------------------------------------------------------------------------
\* str helpers (Python built-ins used by llm_client.py)
\* ------------------------------------------------------------------------

\* the characters U+0020 to U+007E, in order
AsciiChars ==
    << " ", "!", "\"", "#", "$", "%", "&", "'", "(", ")", "*", "+",
       ",", "-", ".", "/", "0", "1", "2", "3", "4", "5", "6", "7",
       "8", "9", ":", ";", "<", "=", ">", "?", "@", "A", "B", "C",
       "D", "E", "F", "G", "H", "I", "J", "K", "L", "M", "N", "O",
       "P", "Q", "R", "S", "T", "U", "V", "W", "X", "Y", "Z", "[",
       "\\", "]", "^", "_", BQ, "a", "b", "c", "d", "e", "f", "g",
       "h", "i", "j", "k", "l", "m", "n", "o", "p", "q", "r", "s",
       "t", "u", "v", "w", "x", "y", "z", "{", "|", "}", "~" >>

HexDigits ==
    <<"0", "1", "2", "3", "4", "5", "6", "7", "8", "9", "A", "B", "C", "D", "E", "F">>

RECURSIVE ToHex(_)
ToHex(n) ==
    IF n < 16 THEN HexDigits[n + 1]
    ELSE ToHex(n \div 16) \o HexDigits[(n % 16) + 1]

\* chr(n): the character itself where a TLA+ string can hold it, and its
\* name U+XXXX where it cannot
Chr(n) ==
    IF n \in 32..126 THEN AsciiChars[n - 31]
    ELSE IF n = 9 THEN "\t"
    ELSE IF n = 10 THEN "\n"
    ELSE IF n = 12 THEN "\f"
    ELSE IF n = 13 THEN "\r"
    ELSE "U+" \o (IF n < 16 THEN "000" ELSE IF n < 256 THEN "00"
                  ELSE IF n < 4096 THEN "0" ELSE "") \o ToHex(n)

\* the characters str.strip() removes: those str.isspace() is true of
Whitespace ==
    {Chr(n) : n \in (9..13) \cup (28..32) \cup {133, 160, 5760}
                       \cup (8192..8202) \cup {8232, 8233, 8239, 8287, 12288}}

\* the characters json's WHITESPACE regex accepts
JsonWhitespace == {" ", "\t", "\n", "\r"}

RECURSIVE LStrip(_)
LStrip(s) ==
    IF s # <<>> /\ Head(s) \in Whitespace THEN LStrip(Tail(s)) ELSE s

RECURSIVE RStrip(_)
RStrip(s) ==
    IF s # <<>> /\ s[Len(s)] \in Whitespace
    THEN RStrip(SubSeq(s, 1, Len(s) - 1))
    ELSE s

\* str.strip()
Strip(s) == RStrip(LStrip(s))

\* str.startswith(prefix)
StartsWith(s, prefix) ==
    /\ Len(s) >= Len(prefix)
    /\ SubSeq(s, 1, Len(prefix)) = prefix

\* s[start:-drop] for start >= 0 and drop > 0
SliceFromDropLast(s, start, drop) ==
    SubSeq(s, start + 1, Len(s) - drop)

RECURSIVE IntStr(_)
\* str() of a natural number
IntStr(n) ==
    LET digit == <<"0", "1", "2", "3", "4", "5", "6", "7", "8", "9">>[(n % 10) + 1]
    IN  IF n < 10 THEN <<digit>> ELSE IntStr(n \div 10) \o <<digit>>

\* s[i : i + Len(word)] == word   (i is a 1-based position)
WordAt(s, i, word) ==
    /\ i + Len(word) - 1 <= Len(s)
    /\ SubSeq(s, i, i + Len(word) - 1) = word

\* the position of the first non-whitespace character at or after i
RECURSIVE SkipWs(_, _)
SkipWs(s, i) ==
    IF i <= Len(s) /\ s[i] \in JsonWhitespace THEN SkipWs(s, i + 1) ELSE i

Digits == {"0", "1", "2", "3", "4", "5", "6", "7", "8", "9"}

\* \d* matched at i: the position of the first character at or after i that
\* is no digit, Len(s) + 1 when digits run to the end
SkipDigits(s, i) ==
    LET stops == {j \in i..Len(s) : s[j] \notin Digits}
    IN  IF i > Len(s) THEN i
        ELSE IF stops = {} THEN Len(s) + 1
        ELSE CHOOSE j \in stops : \A k \in stops : j <= k

\* ------------------------------------------------------------------------
\* Outcomes of a call and exceptions
\* ------------------------------------------------------------------------

\* an exception object; str(e) is e.msg
Exc(type, msg) == [type |-> type, msg |-> msg]

\* how a call ends: it returns a value or raises an exception
Return(value) == [kind |-> "return", value |-> value]
Raise(exc) == [kind |-> "raise", exc |-> exc]

\* the exception classes that derive from BaseException and not from
\* Exception
NonExceptions ==
    {"BaseException", "BaseExceptionGroup", "CancelledError", "GeneratorExit",
     "KeyboardInterrupt", "SystemExit"}

\* isinstance(e, Exception): whether `except Exception` catches e
IsException(exc) == exc.type \notin NonExceptions

\* ------------------------------------------------------------------------
\* json.loads (the decoder of the standard library, as llm_client.py calls
\* it).  A decoded value is a record [t, v]: t is the Python type of the
\* value and v its content (the characters of a str, the items of a list,
\* the keys of a dict in insertion order).
\* ------------------------------------------------------------------------

JStr(chars) == [t |-> "str", v |-> chars]
JList(items) == [t |-> "list", v |-> items]
JDict(keys) == [t |-> "dict", v |-> keys]
JInt == [t |-> "int", v |-> <<>>]
JFloat == [t |-> "float", v |-> <<>>]
JNull == [t |-> "NoneType", v |-> <<>>]
JBool == [t |-> "bool", v |-> <<>>]

\* how decoding ends: a value and the position after it, a
\* json.JSONDecodeError, or another exception the decoder raises
DecodeError == [ok |-> FALSE, json |-> TRUE]
Decoded(val, next) == [ok |-> TRUE, val |-> val, next |-> next]
DecoderRaises(exc) == [ok |-> FALSE, json |-> FALSE, exc |-> exc]

\* sys.getrecursionlimit() and sys.get_int_max_str_digits(), as CPython
\* sets them
RecursionLimit == 1000
IntMaxStrDigits == 4300

\* the Python frames json.loads puts on the stack while the decoder scans:
\* json.loads, JSONDecoder.decode and raw_decode
DecoderFrames == 3

\* the frames on the stack inside request_model_selection, which calls
\* json.loads, when process_query was called from a function that is
\* `caller` frames deep: process_query, phase_1_model_selection and
\* request_model_selection are above it
SelectionFrames(caller) == caller + 3

\* how deep the caller of process_query is: the top level of a script, a
\* function it calls, a handler that a web framework calls
CallerFrames == {1, 2, 40}

\* RecursionError of the scanner entering a JSON array or object
TooDeep(what) ==
    Exc("RecursionError",
        <<"m", "a", "x", "i", "m", "u", "m", " ", "r", "e", "c", "u", "r", "s", "i", "o", "n", " ",
          "d", "e", "p", "t", "h", " ", "e", "x", "c", "e", "e", "d", "e", "d", " ",
          "w", "h", "i", "l", "e", " ", "d", "e", "c", "o", "d", "i", "n", "g", " ",
          "a", " ", "J", "S", "O", "N", " ">> \o what
            \o <<" ", "f", "r", "o", "m", " ", "a", " ", "u", "n", "i", "c", "o", "d", "e", " ",
                 "s", "t", "r", "i", "n", "g">>)

\* characters the strict decoder refuses inside a string literal: U+0000 to
\* U+001F
ControlChars == {Chr(n) : n \in 0..31}

\* the code point of the four hexadecimal digits at s[i .. i + 3], or -1
\* when they are not four hexadecimal digits
DecodeHex4(s, i) ==
    LET lower == <<"a", "b", "c", "d", "e", "f">>
        value(c) ==
            IF \E d \in 1..16 : HexDigits[d] = c
            THEN (CHOOSE d \in 1..16 : HexDigits[d] = c) - 1
            ELSE IF \E d \in 1..6 : lower[d] = c
            THEN (CHOOSE d \in 1..6 : lower[d] = c) + 9
            ELSE -1
    IN  IF i + 3 > Len(s) \/ \E k \in 0..3 : value(s[i + k]) < 0 THEN -1
        ELSE 4096 * value(s[i]) + 256 * value(s[i + 1])
                 + 16 * value(s[i + 2]) + value(s[i + 3])

\* scanstring (strict): i is the position after the opening quote
RECURSIVE ScanString(_, _, _)
ScanString(s, i, acc) ==
    IF i > Len(s) THEN DecodeError
    ELSE IF s[i] = "\"" THEN Decoded(JStr(acc), i + 1)
    ELSE IF s[i] \in ControlChars THEN DecodeError
    ELSE IF s[i] = "\\"
         THEN IF i + 1 > Len(s) THEN DecodeError
              ELSE IF s[i + 1] \in {"\"", "\\", "/"}
                   THEN ScanString(s, i + 2, Append(acc, s[i + 1]))
              ELSE IF s[i + 1] \in {"b", "f", "n", "r", "t"}
                   THEN ScanString(s, i + 2,
                            Append(acc, CASE s[i + 1] = "b" -> Chr(8)
                                          [] s[i + 1] = "f" -> "\f"
                                          [] s[i + 1] = "n" -> "\n"
                                          [] s[i + 1] = "r" -> "\r"
                                          [] s[i + 1] = "t" -> "\t"))
              ELSE IF s[i + 1] = "u"
                   THEN LET uni == DecodeHex4(s, i + 2)
                            uni2 == IF WordAt(s, i + 6, <<"\\", "u">>)
                                    THEN DecodeHex4(s, i + 8) ELSE -1
                        IN  IF uni < 0 THEN DecodeError
                            ELSE IF /\ uni \in 55296..56319
                                    /\ uni2 \in 56320..57343
                            THEN ScanString(s, i + 12,
                                     Append(acc, Chr(65536 + 1024 * (uni - 55296)
                                                     + (uni2 - 56320))))
                            ELSE ScanString(s, i + 6, Append(acc, Chr(uni)))
              ELSE DecodeError
    ELSE ScanString(s, i + 1, Append(acc, s[i]))

\* the integer part of NUMBER_RE, -?(?:0|[1-9]\d*), matched at i:
\* the position after it, or 0 when it does not match
ScanInteger(s, i) ==
    LET j == IF i <= Len(s) /\ s[i] = "-" THEN i + 1 ELSE i
    IN  IF j > Len(s) THEN 0
        ELSE IF s[j] = "0" THEN j + 1
        ELSE IF s[j] \in Digits THEN SkipDigits(s, j + 1)
        ELSE 0

\* the fraction of NUMBER_RE, (\.\d+)?, matched where the integer part ends:
\* the position after it
ScanFraction(s, intEnd) ==
    IF /\ intEnd # 0
       /\ intEnd + 1 <= Len(s)
       /\ s[intEnd] = "."
       /\ s[intEnd + 1] \in Digits
    THEN SkipDigits(s, intEnd + 2)
    ELSE intEnd

\* the exponent of NUMBER_RE, ([eE][-+]?\d+)?, matched where the fraction
\* ends: the position after it
ScanExponent(s, fracEnd) ==
    LET expDigits == IF fracEnd # 0 /\ fracEnd <= Len(s) /\ s[fracEnd] \in {"e", "E"}
                     THEN IF fracEnd + 1 <= Len(s) /\ s[fracEnd + 1] \in {"-", "+"}
                          THEN fracEnd + 2
                          ELSE fracEnd + 1
                     ELSE 0
    IN  IF expDigits # 0 /\ expDigits <= Len(s) /\ s[expDigits] \in Digits
        THEN SkipDigits(s, expDigits + 1)
        ELSE fracEnd

\* NUMBER_RE.match: (-?(?:0|[1-9]\d*))(\.\d+)?([eE][-+]?\d+)?
\* the position after the match, or 0 when there is none
ScanNumber(s, i) == ScanExponent(s, ScanFraction(s, ScanInteger(s, i)))

\* ValueError of int() given more digits than the limit
TooManyDigits(digits) ==
    Exc("ValueError",
        <<"E", "x", "c", "e", "e", "d", "s", " ", "t", "h", "e", " ", "l", "i", "m", "i", "t", " ", "(">>
            \o IntStr(IntMaxStrDigits)
            \o <<" ", "d", "i", "g", "i", "t", "s", ")", " ", "f", "o", "r", " ",
                 "i", "n", "t", "e", "g", "e", "r", " ", "s", "t", "r", "i", "n", "g", " ",
                 "c", "o", "n", "v", "e", "r", "s", "i", "o", "n", ":", " ",
                 "v", "a", "l", "u", "e", " ", "h", "a", "s", " ">>
            \o IntStr(digits)
            \o <<" ", "d", "i", "g", "i", "t", "s", ";", " ", "u", "s", "e", " ",
                 "s", "y", "s", ".", "s", "e", "t", "_", "i", "n", "t", "_", "m", "a", "x", "_",
                 "s", "t", "r", "_", "d", "i", "g", "i", "t", "s", "(", ")", " ",
                 "t", "o", " ", "i", "n", "c", "r", "e", "a", "s", "e", " ",
                 "t", "h", "e", " ", "l", "i", "m", "i", "t">>)

\* _match_number: a number with a fraction or an exponent decodes to a
\* float; else int() makes an int of it, which raises for more digits than
\* the limit
DecodedNumber(s, i) ==
    LET intEnd == ScanInteger(s, i)
        digits == IF s[i] = "-" THEN intEnd - i - 1 ELSE intEnd - i
    IN  IF ScanNumber(s, i) # intEnd THEN Decoded(JFloat, ScanNumber(s, i))
        ELSE IF digits > IntMaxStrDigits THEN DecoderRaises(TooManyDigits(digits))
        ELSE Decoded(JInt, intEnd)

RECURSIVE ScanOnce(_, _, _)
RECURSIVE ParseElems(_, _, _, _)
RECURSIVE ParseMembers(_, _, _, _)

\* JSONArray: i is the position after "[", free the nesting the scanner can
\* still enter
ParseArray(s, i, free) ==
    LET j == SkipWs(s, i)
    IN  IF j <= Len(s) /\ s[j] = "]"
        THEN Decoded(JList(<<>>), j + 1)
        ELSE ParseElems(s, j, <<>>, free)

\* JSONObject: i is the position after "{"
ParseObject(s, i, free) ==
    LET j == SkipWs(s, i)
    IN  IF j > Len(s) THEN DecodeError
        ELSE IF s[j] = "}" THEN Decoded(JDict(<<>>), j + 1)
        ELSE IF s[j] # "\"" THEN DecodeError
        ELSE ParseMembers(s, j + 1, <<>>, free)

\* scan_once of the C scanner: an object or an array is entered under
\* Py_EnterRecursiveCall
ScanOnce(s, i, free) ==
    IF i > Len(s) THEN DecodeError
    ELSE IF s[i] = "\"" THEN ScanString(s, i + 1, <<>>)
    ELSE IF s[i] = "{"
         THEN IF free <= 0 THEN DecoderRaises(TooDeep(<<"o", "b", "j", "e", "c", "t">>))
              ELSE ParseObject(s, i + 1, free - 1)
    ELSE IF s[i] = "["
         THEN IF free <= 0 THEN DecoderRaises(TooDeep(<<"a", "r", "r", "a", "y">>))
              ELSE ParseArray(s, i + 1, free - 1)
    ELSE IF WordAt(s, i, <<"n", "u", "l", "l">>) THEN Decoded(JNull, i + 4)
    ELSE IF WordAt(s, i, <<"t", "r", "u", "e">>) THEN Decoded(JBool, i + 4)
    ELSE IF WordAt(s, i, <<"f", "a", "l", "s", "e">>) THEN Decoded(JBool, i + 5)
    ELSE IF ScanNumber(s, i) # 0 THEN DecodedNumber(s, i)
    ELSE IF WordAt(s, i, <<"N", "a", "N">>) THEN Decoded(JFloat, i + 3)
    ELSE IF WordAt(s, i, <<"I", "n", "f", "i", "n", "i", "t", "y">>)
         THEN Decoded(JFloat, i + 8)
    ELSE IF WordAt(s, i, <<"-", "I", "n", "f", "i", "n", "i", "t", "y">>)
         THEN Decoded(JFloat, i + 9)
    ELSE DecodeError

\* the loop of JSONArray: a value, then "]" or "," and the next value; an
\* exception scanning the value leaves the decoder
ParseElems(s, i, acc, free) ==
    LET r == ScanOnce(s, i, free)
    IN  IF ~r.ok THEN r
        ELSE LET j == SkipWs(s, r.next)
             IN  IF j > Len(s) THEN DecodeError
                 ELSE IF s[j] = "]"
                      THEN Decoded(JList(Append(acc, r.val)), j + 1)
                 ELSE IF s[j] = ","
                      THEN ParseElems(s, SkipWs(s, j + 1), Append(acc, r.val), free)
                 ELSE DecodeError

\* a dict keeps a key at the place of its first insertion
AddKey(keys, k) ==
    IF \E n \in 1..Len(keys) : keys[n] = k THEN keys ELSE Append(keys, k)

\* the loop of JSONObject: i is the position after the key's opening quote
ParseMembers(s, i, keys, free) ==
    LET k == ScanString(s, i, <<>>)
    IN  IF ~k.ok THEN DecodeError
        ELSE LET c == SkipWs(s, k.next)
             IN  IF c > Len(s) \/ s[c] # ":" THEN DecodeError
                 ELSE LET r == ScanOnce(s, SkipWs(s, c + 1), free)
                      IN  IF ~r.ok THEN r
                          ELSE LET m == SkipWs(s, r.next)
                                   n == SkipWs(s, m + 1)
                               IN  IF m > Len(s) THEN DecodeError
                                   ELSE IF s[m] = "}"
                                        THEN Decoded(JDict(AddKey(keys, k.val.v)), m + 1)
                                   ELSE IF s[m] = "," /\ n <= Len(s) /\ s[n] = "\""
                                        THEN ParseMembers(s, n + 1, AddKey(keys, k.val.v), free)
                                   ELSE DecodeError

\* json.loads(s), called by a function that is `frames` frames deep: one
\* value, whitespace around it, nothing after it; the scanner can enter as
\* many arrays and objects, one inside the other, as the recursion limit
\* leaves above the frames in use
JsonLoads(s, frames) ==
    LET r == ScanOnce(s, SkipWs(s, 1),
                      RecursionLimit - 1 - frames - DecoderFrames)
    IN  IF ~r.ok THEN r
        ELSE IF SkipWs(s, r.next) # Len(s) + 1 THEN DecodeError
        ELSE r

\* ------------------------------------------------------------------------
\* request_model_selection of the two providers: what each makes of the
\* outcome `reply` of its generate_response call
\* ------------------------------------------------------------------------

FenceJson == <<BQ, BQ, BQ, "j", "s", "o", "n">>
Fence == <<BQ, BQ, BQ>>

\* response.strip(), then the fenced-code-block wrapper cut off by position
StripFence(response) ==
    LET stripped == Strip(response)
    IN  IF StartsWith(stripped, FenceJson)
        THEN Strip(SliceFromDropLast(stripped, 7, 3))
        ELSE IF StartsWith(stripped, Fence)
        THEN Strip(SliceFromDropLast(stripped, 3, 3))
        ELSE stripped

\* whether `for model in selected_models` can iterate the decoded value
Iterable(val) == val.t \in {"list", "str", "dict"}

\* what the iteration yields: the items of a list, the characters of a str,
\* the keys of a dict
Items(val) ==
    IF val.t = "list" THEN val.v
    ELSE IF val.t = "str" THEN [i \in 1..Len(val.v) |-> JStr(<<val.v[i]>>)]
    ELSE [i \in 1..Len(val.v) |-> JStr(val.v[i])]

\* available_model_ids = [model['id'] for model in available_models]
AvailableModelIds(available_models) ==
    [i \in 1..Len(available_models) |-> available_models[i].id]

\* a faulty variant: every str of the response counts as a candidate
IsAvailable_AnyString(item, available_model_ids) == item.t = "str"

\* `model in available_model_ids`: only a str equals an ID
IsAvailable(item, available_model_ids) ==
    /\ item.t = "str"
    /\ \E n \in 1..Len(available_model_ids) : available_model_ids[n] = item.v

\* a faulty variant: the IDs of the response are not checked against the candidates
ValidModels_NoFilter(items, available_model_ids) ==
    LET keep(item) == item.t = "str"
        kept == SelectSeq(items, keep)
    IN  [i \in 1..Len(kept) |-> kept[i].v]

\* [model for model in selected_models if model in available_model_ids]
ValidModels(items, available_model_ids) ==
    LET keep(item) == IsAvailable(item, available_model_ids)
        kept == SelectSeq(items, keep)
    IN  [i \in 1..Len(kept) |-> kept[i].v]

\* a faulty variant: the list is not truncated
FirstThree_All(valid_models) == valid_models

\* valid_models[:3]
FirstThree(valid_models) ==
    IF Len(valid_models) <= 3 THEN valid_models ELSE SubSeq(valid_models, 1, 3)

\* the name of a Python type, as a str
TypeName(t) ==
    CASE t = "int" -> <<"i", "n", "t">>
      [] t = "str" -> <<"s", "t", "r">>
      [] t = "list" -> <<"l", "i", "s", "t">>
      [] t = "dict" -> <<"d", "i", "c", "t">>
      [] t = "float" -> <<"f", "l", "o", "a", "t">>
      [] t = "bool" -> <<"b", "o", "o", "l">>
      [] t = "NoneType" -> <<"N", "o", "n", "e", "T", "y", "p", "e">>

\* TypeError of iterating a value that is no iterable
NotIterable(t) ==
    Exc("TypeError", <<"'">> \o TypeName(t) \o <<"'", " ", "o", "b", "j", "e", "c", "t", " ", "i", "s", " ", "n",
       "o", "t", " ", "i", "t", "e", "r", "a", "b", "l", "e">>)

\* a value a gateway call returns is a text (a str), None, or a value of
\* another type, which is kept as <<"value", v>> with v the decoded JSON
\* value
IsText(value) == value = <<>> \/ value[1] \notin {"None", "value"}

\* type(value).__name__
PyType(value) ==
    IF IsText(value) THEN "str"
    ELSE IF value = NoneVal THEN "NoneType"
    ELSE value[2].t

\* AttributeError of calling a str method on a value that has none of that
\* name
NoAttribute(t, name) ==
    Exc("AttributeError",
        <<"'">> \o TypeName(t)
            \o <<"'", " ", "o", "b", "j", "e", "c", "t", " ", "h", "a", "s", " ", "n", "o", " ", "a", "t", "t", "r", "i", "b", "u", "t", "e", " ", "'">>
            \o name \o <<"'">>)

\* OpenAIClient.request_model_selection: only json.JSONDecodeError is caught
OpenAIClient_request_model_selection(reply, available_models, frames) ==
    IF reply.kind = "raise" THEN reply
    ELSE IF ~IsText(reply.value)
         THEN Raise(NoAttribute(PyType(reply.value), <<"s", "t", "r", "i", "p">>))
    ELSE LET decoded == JsonLoads(StripFence(reply.value), frames)
         IN  IF ~decoded.ok
             THEN IF decoded.json THEN Return(<<>>) ELSE Raise(decoded.exc)
             ELSE IF ~Iterable(decoded.val)
                  THEN Raise(NotIterable(decoded.val.t))
             ELSE Return(FirstThree(ValidModels(Items(decoded.val),
                                    AvailableModelIds(available_models))))

\* GeminiClient.request_model_selection: json.JSONDecodeError and TypeError
\* are caught
GeminiClient_request_model_selection(reply, available_models, frames) ==
    IF reply.kind = "raise" THEN reply
    ELSE IF ~IsText(reply.value)
         THEN Raise(NoAttribute(PyType(reply.value), <<"s", "t", "r", "i", "p">>))
    ELSE LET decoded == JsonLoads(StripFence(reply.value), frames)
         IN  IF ~decoded.ok
             THEN IF decoded.json THEN Return(<<>>) ELSE Raise(decoded.exc)
             ELSE IF ~Iterable(decoded.val) THEN Return(<<>>)
             ELSE Return(FirstThree(ValidModels(Items(decoded.val),
                                    AvailableModelIds(available_models))))

\* ------------------------------------------------------------------------
\* The repository index (ModelParser.models) and the inputs of the model
\* ------------------------------------------------------------------------

\* longest list of IDs a selection stub returns or a selection response lists
MaxListLen == 5
\* longest time a gateway call takes
MaxLatency == 1

\* every sequence over S of length at most n
SeqsUpTo(S, n) == UNION {[1..k -> S] : k \in 0..n}

IdA == <<"a">>
IdB == <<"b">>
\* an ID no model file carries
IdZ == <<"z">>

\* the ThinkingModel records the model files hold
ThinkingModels ==
    { [id |-> IdA, type |-> <<"s", "o", "l", "v", "e">>, field |-> <<"*">>,
       definition |-> <<"d", "1">>, examples |-> << <<"e", "1">> >>],
      [id |-> IdB, type |-> <<"e", "x", "p", "l", "a", "i", "n">>, field |-> <<"x">>,
       definition |-> <<"d", "2">>, examples |-> <<>>] }

\* the indexes load_all_models can leave: the values of a dict in insertion
\* order, each ID once
Indexes ==
    { ms \in SeqsUpTo(ThinkingModels, Cardinality(ThinkingModels)) :
        \A i, j \in 1..Len(ms) : ms[i].id = ms[j].id => i = j }

Queries == { <<>>, <<"h", "i">> }

\* lists of IDs, known to the index or not
IdLists == SeqsUpTo({IdA, IdB, IdZ}, MaxListLen)

\* exceptions a gateway call raises: two that derive from Exception, and
\* the KeyboardInterrupt of a Ctrl-C during the call, which does not
GatewayErrors ==
    { Exc("RuntimeError", <<"b", "o", "o", "m">>), Exc("Exception", <<>>),
      Exc("KeyboardInterrupt", <<>>) }

\* texts the LLM answers a direct or a solution prompt with
ReplyTexts == { <<>>, <<"o", "k">> }

\* how a generate_response or request_solution call of the gateway ends
TextOutcomes ==
    {Return(v) : v \in ReplyTexts \cup {NoneVal}}
        \cup {Raise(e) : e \in GatewayErrors}

\* how the request_model_selection of a stub gateway ends
StubSelectionOutcomes ==
    {Return(ids) : ids \in IdLists} \cup {Raise(e) : e \in GatewayErrors}

\* ------------------------------------------------------------------------
\* Selection responses of the LLM
\* ------------------------------------------------------------------------

Quoted(id) == <<"\"">> \o id \o <<"\"">>

RECURSIVE JoinIds(_)
JoinIds(ids) ==
    IF ids = <<>> THEN <<>>
    ELSE IF Len(ids) = 1 THEN Quoted(ids[1])
    ELSE Quoted(ids[1]) \o <<",", " ">> \o JoinIds(Tail(ids))

\* a JSON array of the IDs, as the selection prompt asks for
JsonArray(ids) == <<"[">> \o JoinIds(ids) \o <<"]">>

\* the ways the LLM wraps its array: bare, padded with whitespace, in a
\* fenced code block tagged json, untagged or tagged otherwise
Wrappings(text) ==
    { text,
      <<" ">> \o text \o <<"\n">>,
      <<BQ, BQ, BQ, "j", "s", "o", "n", "\n">> \o text \o <<"\n", BQ, BQ, BQ>>,
      <<BQ, BQ, BQ, "\n">> \o text \o <<"\n", BQ, BQ, BQ>>,
      <<BQ, BQ, BQ, "p", "y", "t", "h", "o", "n", "\n">> \o text \o <<"\n", BQ, BQ, BQ>> }

\* responses that are no JSON array of IDs: unparsable text, JSON of another
\* shape, arrays with items that are no strings, broken fences
OtherResponses ==
    { <<>>, <<"n", "o", "p", "e">>, <<"5">>, <<"1", ".", "5">>, <<"n", "u", "l", "l">>, <<"t", "r", "u", "e">>,
      <<"\"", "a", "b", "\"">>, <<"{", "\"", "a", "\"", ":", " ", "1", "}">>, <<"{", "\"", "b", "\"", ":", " ", "1", ",", " ", "\"", "a", "\"",
       ":", " ", "2", ",", " ", "\"", "b", "\"", ":", " ", "3", "}">>,
      <<"[", "\"", "a", "\"">>, <<"[", "\"", "a", "\"", "]", " ", "x">>, <<"[", "5", ",", " ", "\"", "a", "\"", ",", " ", "n", "u", "l",
       "l", "]">>,
      <<"[", "[", "\"", "a", "\"", "]", "]">>, <<BQ, BQ, BQ, "j", "s", "o", "n", "\n", "[", "\"", "a", "\"", "]">>, <<BQ, BQ, BQ>> }

\* responses with escapes in their strings and with whitespace that is none
\* of JSON's: IDs written with \uXXXX, a \b, a raw form feed inside a string,
\* a form feed or a vertical tab around the array or the fence, a surrogate
\* pair, a form feed inside the array
EscapedResponses ==
    { <<"[", "\"", "\\", "u", "0", "0", "6", "1", "\"", "]">>,
      <<"[", "\"", "\\", "u", "0", "0", "6", "2", "\"", ",", " ", "\"", "\\", "u", "0", "0", "7", "A", "\"", ",", " ", "\"", "a", "\"", "]">>,
      <<"[", "\"", "\\", "b", "\"", ",", " ", "\"", "b", "\"", "]">>,
      <<"[", "\"", "a", "\f", "b", "\"", "]">>,
      <<" ", "[", "\"", "a", "\"", "]", "\f">>,
      <<BQ, BQ, BQ, "j", "s", "o", "n", "\n", "[", "\"", "b", "\"", "]", "\n", BQ, BQ, BQ, "\f">>,
      <<"U+000B", BQ, BQ, BQ, "\n", "[", "\"", "a", "\"", "]", "\n", BQ, BQ, BQ>>,
      <<"[", "\"", "\\", "u", "d", "8", "3", "d", "\\", "u", "d", "e", "0", "0", "\"", ",", " ", "\"", "a", "\"", "]">>,
      <<"[", "\"", "a", "\"", "\f", "]">> }

\* a response that is one number of more digits than int() converts
LongNumber == [i \in 1..(IntMaxStrDigits + 1) |-> "1"]

SelectionResponses ==
    UNION {Wrappings(JsonArray(ids)) : ids \in IdLists}
        \cup OtherResponses \cup EscapedResponses \cup {LongNumber}

\* how the generate_response call inside request_model_selection ends
SelectionReplies ==
    {Return(v) : v \in SelectionResponses \cup {NoneVal}}
        \cup {Raise(e) : e \in GatewayErrors}

\* ------------------------------------------------------------------------
\* QueryProcessor (src/src/core/query_processor.py)
\* ------------------------------------------------------------------------

\* processing_time left at its default None
NoTime == -1

\* the QueryResult dataclass
QueryResult(query, selected_models, solution, processing_time, error) ==
    [query |-> query, selected_models |-> selected_models,
     solution |-> solution, processing_time |-> processing_time,
     error |-> error]

FallbackPreamble ==
    <<"I", "'", "l", "l", " ", "a", "d", "d", "r", "e", "s", "s", " ",
       "y", "o", "u", "r", " ", "q", "u", "e", "r", "y", " ", "d", "i",
       "r", "e", "c", "t", "l", "y", " ", "w", "i", "t", "h", "o", "u",
       "t", " ", "u", "s", "i", "n", "g", " ", "s", "p", "e", "c", "i",
       "f", "i", "c", " ", "t", "h", "i", "n", "k", "i", "n", "g", " ",
       "m", "o", "d", "e", "l", "s", ":", "\n", "\n">>
NotFoundSolution == <<"S", "e", "l", "e", "c", "t", "e", "d", " ", "m", "o", "d", "e",
       "l", "s", " ", "w", "e", "r", "e", " ", "n", "o", "t", " ", "f",
       "o", "u", "n", "d", " ", "i", "n", " ", "t", "h", "e", " ", "d",
       "a", "t", "a", "b", "a", "s", "e", ".">>
NotFoundError == <<"M", "o", "d", "e", "l", " ", "d", "a", "t", "a", " ", "n", "o",
       "t", " ", "f", "o", "u", "n", "d">>
ErrorPrefix == <<"A", "n", " ", "e", "r", "r", "o", "r", " ", "o", "c", "c", "u",
       "r", "r", "e", "d", " ", "w", "h", "i", "l", "e", " ", "p", "r",
       "o", "c", "e", "s", "s", "i", "n", "g", " ", "y", "o", "u", "r",
       " ", "q", "u", "e", "r", "y", ":", " ">>

\* TypeError of the fallback preamble + None
ConcatNone ==
    Exc("TypeError", <<"c", "a", "n", " ", "o", "n", "l", "y", " ", "c", "o", "n", "c",
       "a", "t", "e", "n", "a", "t", "e", " ", "s", "t", "r", " ", "(",
       "n", "o", "t", " ", "\"", "N", "o", "n", "e", "T", "y", "p", "e",
       "\"", ")", " ", "t", "o", " ", "s", "t", "r">>)

\* phase_1_model_selection: the id and definition of every indexed model
AvailableModels(index) ==
    [i \in 1..Len(index) |->
        [id |-> index[i].id, definition |-> index[i].definition]]

\* a faulty variant: the filter on model_ids is missing
fetch_model_data_NoFilter(index, model_ids) ==
    [i \in 1..Len(index) |->
        [id |-> index[i].id, type |-> index[i].type,
         definition |-> index[i].definition,
         examples |-> index[i].examples]]

\* a faulty variant: the records are looked up ID by ID, in the order of
\* model_ids, a repeated ID giving its record again
fetch_model_data_SelectionOrder(index, model_ids) ==
    LET known(id) == \E i \in 1..Len(index) : index[i].id = id
        ids == SelectSeq(model_ids, known)
        at(id) == CHOOSE i \in 1..Len(index) : index[i].id = id
    IN  [n \in 1..Len(ids) |->
            [id |-> index[at(ids[n])].id, type |-> index[at(ids[n])].type,
             definition |-> index[at(ids[n])].definition,
             examples |-> index[at(ids[n])].examples]]

\* fetch_model_data: the indexed models whose id is in model_ids, in index
\* order
fetch_model_data(index, model_ids) ==
    LET selected(model) == \E n \in 1..Len(model_ids) : model_ids[n] = model.id
        found == SelectSeq(index, selected)
    IN  [i \in 1..Len(found) |->
            [id |-> found[i].id, type |-> found[i].type,
             definition |-> found[i].definition,
             examples |-> found[i].examples]]

\* a faulty variant: the check of the fetched records is missing
Branch_NoNotFound(selected_models, selected_model_data) ==
    IF selected_models = <<>> THEN "DirectFallback" ELSE "ProposeSolution"

\* which way process_query goes once the selection returned
Branch(selected_models, selected_model_data) ==
    IF selected_models = <<>> THEN "DirectFallback"
    ELSE IF selected_model_data = <<>> THEN "RecordsNotFound"
    ELSE "ProposeSolution"

\* the gateway calls process_query makes, as they are logged in `calls`
SelectionCall(q, index) ==
    [ev |-> "call", op |-> "request_model_selection",
     args |-> [query |-> q, available_models |-> AvailableModels(index)]]

\* a faulty variant: the direct call frames the query with a system prompt
DirectCall_SystemPrompt(q) ==
    [ev |-> "call", op |-> "generate_response",
     args |-> [prompt |-> q, system_prompt |-> FallbackPreamble]]

\* _generate_direct_solution: generate_response(query)
DirectCall(q) ==
    [ev |-> "call", op |-> "generate_response",
     args |-> [prompt |-> q, system_prompt |-> NoneVal]]

\* phase_2_solution_generation: request_solution(query, selected_models)
SolutionCall(q, selected_model_data) ==
    [ev |-> "call", op |-> "request_solution",
     args |-> [query |-> q, selected_models |-> selected_model_data]]

\* the end of a gateway call
CallEnd(op, how) == [ev |-> "end", op |-> op, outcome |-> how]

\* a faulty variant: the fallback solution without its preamble
FallbackResult_NoPreamble(q, text, start, t) ==
    QueryResult(q, <<>>, text, t - start, NoneVal)

\* the result when no model was selected
FallbackResult(q, text, start, t) ==
    QueryResult(q, <<>>, FallbackPreamble \o text, t - start, NoneVal)

\* the result when no selected ID resolves
NotFoundResult(q, selected_models, start, t) ==
    QueryResult(q, selected_models, NotFoundSolution, t - start, NotFoundError)

\* a faulty variant: the result of the solution phase loses the selected IDs
SuccessResult_NoModels(q, selected_models, solution, start, t) ==
    QueryResult(q, <<>>, solution, t - start, NoneVal)

\* the result of the solution phase
SuccessResult(q, selected_models, solution, start, t) ==
    QueryResult(q, selected_models, solution, t - start, NoneVal)

\* a faulty variant: the except clause leaves the error field unset
ErrorResult_NoError(q, e, start, t) ==
    QueryResult(q, <<>>, ErrorPrefix \o e.msg, t - start, NoneVal)

\* the result the except clause builds
ErrorResult(q, e, start, t) ==
    QueryResult(q, <<>>, ErrorPrefix \o e.msg, t - start, e.msg)

\* a faulty variant: the except clause re-raises
OnException_Reraise(q, e, start, t) == Raise(e)

\* except Exception as e: an Exception ends in a returned result, any other
\* exception leaves process_query
OnException(q, e, start, t) ==
    IF IsException(e) THEN Return(ErrorResult(q, e, start, t)) ELSE Raise(e)

\* the fallback branch once generate_response(query) returned `value`:
\* the preamble + value raises TypeError when value is None
OnDirectReturn(q, value, start, t) ==
    IF value = NoneVal
    THEN OnException(q, ConcatNone, start, t)
    ELSE Return(FallbackResult(q, value, start, t))

\* ------------------------------------------------------------------------
\* State
\* ------------------------------------------------------------------------

VARIABLES
    models,      \* ModelParser.models: the ThinkingModels in insertion order
    provider,    \* the llm_client: "stub", "openai" or "gemini"
    pc,          \* where process_query is
    query,       \* the argument of process_query
    start_time,  \* the local start_time
    now,         \* the clock time.time() reads, counted from the call
    llm_reply,   \* how the provider's own generate_response call ended
    selection,   \* how request_model_selection ended
    calls,       \* the gateway calls of process_query and their ends
    outcome      \* how process_query ended

\* the variables of a process_query call
queryVars == <<models, provider, pc, query, start_time, now, llm_reply,
               selection, calls, outcome>>

VARIABLES
    config,            \* LLMConfig: max_retries and retry_delay
    requests_version,  \* the requests library installed: "2.26" or "2.27"
    step,              \* where the test_connection call of the client is
    attempt,           \* the loop variable of _make_request
    last_error,        \* the local last_error of _make_request
    events,            \* the POSTs and sleeps of _make_request, in order
    result,            \* how _make_request ended
    response,          \* how generate_response ended
    connected          \* what test_connection returned

\* the variables of a gateway call
gatewayVars == <<config, requests_version, step, attempt, last_error,
                 events, result, response, connected>>

VARIABLES
    directory,   \* the .txt files of the models directory, in glob order
    loading,     \* where a load_all_models call is: "Scanning" and then
                 \* "Loaded" for the first call, "Rescanning" and then
                 \* "Reloaded" for a call that follows another
    next_file,   \* the position in model_files of the file to load next
    previous,    \* the index as it was when load_all_models was called
    failures,    \* the files logged as failed or skipped, in order
    reader       \* the iterator of a process_query call over
                 \* self.model_parser.models.values(), the dict that
                 \* load_all_models clears and fills

\* the variables of a load_all_models call and of a read of the index that
\* runs beside it
loaderVars == <<directory, loading, next_file, previous, failures, reader>>

VARIABLE
    parked       \* the local variables of a second process_query call
                 \* while it is not the one running

VARIABLES
    file_path,   \* the model file a load_single_model call is given
    loaded       \* how that load_single_model call ended

\* the variables of a load_single_model call
parserVars == <<file_path, loaded>>

VARIABLES
    environ,          \* the environment variables startup_event looks
                      \* at: the value of each, None when it is not set
    app,              \* "Starting", "Serving" or "StartupFailed"
    query_processor,  \* the global of app.py: "None" or "QueryProcessor"
    exchange,         \* the last HTTP request and the response to it
    pydantic_version, \* the major version of the pydantic library, "1" or
                      \* "2", whose ValidationError texts differ
    socket            \* the websocket connection: the message its handler
                      \* is answering, the messages sent in answer so far,
                      \* and whether the handler has more to do for it

\* the variables of the web application
webVars == <<environ, app, query_processor, exchange, pydantic_version,
            socket>>

vars == <<queryVars, gatewayVars, loaderVars, parked, parserVars, webVars>>

Pending == [kind |-> "pending"]

Providers == {"stub", "openai", "gemini"}

\* LLMConfig() as the dataclass defaults it: max_retries = 3, retry_delay = 1.0
DefaultConfig == [max_retries |-> 3, retry_delay |-> 1]

\* no iteration over the index is under way
NoReader == [used |-> 0, pos |-> 0, items |-> <<>>, raised |-> FALSE]

\* iter(self.model_parser.models.values()): the iterator notes the number of
\* entries of the dict and starts at its first entry
NewReader(index) ==
    [used |-> Len(index), pos |-> 0, items |-> <<>>, raised |-> FALSE]

\* what next() of the iterator raises when the dict has another number of
\* entries than when the iteration started
DictChanged ==
    Exc("RuntimeError",
        <<"d", "i", "c", "t", "i", "o", "n", "a", "r", "y", " ", "c", "h", "a",
          "n", "g", "e", "d", " ", "s", "i", "z", "e", " ", "d", "u", "r", "i",
          "n", "g", " ", "i", "t", "e", "r", "a", "t", "i", "o", "n">>)

\* no load_all_models call is under way
LoaderIdle ==
    /\ directory = <<>>
    /\ loading = "Idle"
    /\ next_file = 1
    /\ previous = <<>>
    /\ failures = <<>>
    /\ reader = NoReader

\* there is no second call
NoCall == [pc |-> "None"]

\* no load_single_model call of its own is under way
ParserIdle ==
    /\ file_path = <<>>
    /\ loaded = Pending

\* no HTTP request has been made
NoExchange == [path |-> "None"]

\* no message has been received on the websocket
NoSocket == [request |-> [type |-> "None"], sent |-> <<>>, pending |-> FALSE]

\* the environment variables startup_event looks at
EnvironNames == {"LLM_API_URL", "GEMINI_API_KEY"}

\* the web application is not running
WebIdle ==
    /\ environ = [name \in EnvironNames |-> NoneVal]
    /\ app = "None"
    /\ query_processor = "None"
    /\ exchange = NoExchange
    /\ pydantic_version = "None"
    /\ socket = NoSocket

\* last_error = None, whose str() is "None"
NoLastError == Exc("NoneType", <<"N", "o", "n", "e">>)

\* no gateway call of its own is under way
GatewayIdle ==
    /\ config = DefaultConfig
    /\ requests_version = "2.27"
    /\ step = "Idle"
    /\ attempt = 0
    /\ last_error = NoLastError
    /\ events = <<>>
    /\ result = Pending
    /\ response = Pending
    /\ connected = Pending

Init ==
    /\ models \in Indexes
    /\ provider \in Providers
    /\ pc = "Start"
    /\ query = <<>>
    /\ start_time = 0
    /\ now = 0
    /\ llm_reply = Pending
    /\ selection = Pending
    /\ calls = <<>>
    /\ outcome = Pending
    /\ GatewayIdle
    /\ LoaderIdle
    /\ parked = NoCall
    /\ ParserIdle
    /\ WebIdle

\* the provider's request_model_selection
request_model_selection(reply, available_models, frames) ==
    IF provider = "openai"
    THEN OpenAIClient_request_model_selection(reply, available_models, frames)
    ELSE GeminiClient_request_model_selection(reply, available_models, frames)

\* ------------------------------------------------------------------------
\* process_query, one action per gateway round trip
\* ------------------------------------------------------------------------

\* process_query(q) is called: it reads the clock and calls
\* phase_1_model_selection
StartQuery ==
    /\ pc = "Start"
    /\ UNCHANGED <<gatewayVars, loaderVars, parked, parserVars, webVars>>
    /\ \E q \in Queries :
        /\ query' = q
        /\ start_time' = now
        /\ calls' = <<SelectionCall(q, models)>>
        /\ pc' = "SelectModels"
        /\ UNCHANGED <<models, provider, now, llm_reply, selection, outcome>>

\* a stub gateway ends the selection call
StubSelects ==
    /\ pc = "SelectModels"
    /\ UNCHANGED <<gatewayVars, loaderVars, parked, parserVars, webVars>>
    /\ provider = "stub"
    /\ \E how \in StubSelectionOutcomes, d \in 0..MaxLatency :
        /\ now' = now + d
        /\ selection' = how
        /\ calls' = Append(calls, CallEnd("request_model_selection", how))
        /\ pc' = "Selected"
        /\ UNCHANGED <<models, provider, query, start_time, llm_reply, outcome>>

\* a provider's request_model_selection ends: its generate_response call
\* ended with `reply`, which it post-processes
ProviderSelects ==
    /\ pc = "SelectModels"
    /\ UNCHANGED <<gatewayVars, loaderVars, parked, parserVars, webVars>>
    /\ provider # "stub"
    /\ \E reply \in SelectionReplies, d \in 0..MaxLatency, caller \in CallerFrames :
        /\ now' = now + d
        /\ llm_reply' = reply
        /\ selection' = request_model_selection(reply, AvailableModels(models),
                                                SelectionFrames(caller))
        /\ calls' = Append(calls, CallEnd("request_model_selection", selection'))
        /\ pc' = "Selected"
        /\ UNCHANGED <<models, provider, query, start_time, outcome>>

\* the selection call raised: the except clause returns the error result
SelectionRaised ==
    /\ pc = "Selected"
    /\ UNCHANGED <<gatewayVars, loaderVars, parked, parserVars, webVars>>
    /\ selection.kind = "raise"
    /\ outcome' = OnException(query, selection.exc, start_time, now)
    /\ pc' = IF outcome'.kind = "raise" THEN "Raised" ELSE "Done"
    /\ llm_reply' = Pending
    /\ UNCHANGED <<models, provider, query, start_time, now, selection, calls>>

\* no model selected: generate_response(query) is called
NoneSelected ==
    /\ pc = "Selected"
    /\ UNCHANGED <<gatewayVars, loaderVars, parked, parserVars, webVars>>
    /\ selection.kind = "return"
    /\ Branch(selection.value, fetch_model_data(models, selection.value))
          = "DirectFallback"
    /\ calls' = Append(calls, DirectCall(query))
    /\ pc' = "DirectFallback"
    /\ llm_reply' = Pending
    /\ UNCHANGED <<models, provider, query, start_time, now, selection, outcome>>

\* models selected, none of them in the index: the not-found result
RecordsNotFound ==
    /\ pc = "Selected"
    /\ UNCHANGED <<gatewayVars, loaderVars, parked, parserVars, webVars>>
    /\ selection.kind = "return"
    /\ Branch(selection.value, fetch_model_data(models, selection.value))
          = "RecordsNotFound"
    /\ outcome' = Return(NotFoundResult(query, selection.value, start_time, now))
    /\ pc' = "Done"
    /\ llm_reply' = Pending
    /\ UNCHANGED <<models, provider, query, start_time, now, selection, calls>>

\* models selected and found: request_solution is called with their records
RecordsFound ==
    /\ pc = "Selected"
    /\ UNCHANGED <<gatewayVars, loaderVars, parked, parserVars, webVars>>
    /\ selection.kind = "return"
    /\ Branch(selection.value, fetch_model_data(models, selection.value))
          = "ProposeSolution"
    /\ calls' = Append(calls,
           SolutionCall(query, fetch_model_data(models, selection.value)))
    /\ pc' = "ProposeSolution"
    /\ llm_reply' = Pending
    /\ UNCHANGED <<models, provider, query, start_time, now, selection, outcome>>

\* the direct generate_response call returns
DirectReturns ==
    /\ pc = "DirectFallback"
    /\ UNCHANGED <<gatewayVars, loaderVars, parked, parserVars, webVars>>
    /\ \E value \in ReplyTexts \cup {NoneVal}, d \in 0..MaxLatency :
        /\ now' = now + d
        /\ calls' = Append(calls, CallEnd("generate_response", Return(value)))
        /\ outcome' = OnDirectReturn(query, value, start_time, now')
        /\ pc' = IF outcome'.kind = "raise" THEN "Raised" ELSE "Done"
        /\ UNCHANGED <<models, provider, query, start_time, llm_reply, selection>>

\* the direct generate_response call raises
DirectRaises ==
    /\ pc = "DirectFallback"
    /\ UNCHANGED <<gatewayVars, loaderVars, parked, parserVars, webVars>>
    /\ \E e \in GatewayErrors, d \in 0..MaxLatency :
        /\ now' = now + d
        /\ calls' = Append(calls, CallEnd("generate_response", Raise(e)))
        /\ outcome' = OnException(query, e, start_time, now')
        /\ pc' = IF outcome'.kind = "raise" THEN "Raised" ELSE "Done"
        /\ UNCHANGED <<models, provider, query, start_time, llm_reply, selection>>

\* request_solution returns
SolutionReturns ==
    /\ pc = "ProposeSolution"
    /\ UNCHANGED <<gatewayVars, loaderVars, parked, parserVars, webVars>>
    /\ \E value \in ReplyTexts \cup {NoneVal}, d \in 0..MaxLatency :
        /\ now' = now + d
        /\ calls' = Append(calls, CallEnd("request_solution", Return(value)))
        /\ outcome' = Return(SuccessResult(query, selection.value, value,
                                           start_time, now'))
        /\ pc' = "Done"
        /\ UNCHANGED <<models, provider, query, start_time, llm_reply, selection>>

\* request_solution raises
SolutionRaises ==
    /\ pc = "ProposeSolution"
    /\ UNCHANGED <<gatewayVars, loaderVars, parked, parserVars, webVars>>
    /\ \E e \in GatewayErrors, d \in 0..MaxLatency :
        /\ now' = now + d
        /\ calls' = Append(calls, CallEnd("request_solution", Raise(e)))
        /\ outcome' = OnException(query, e, start_time, now')
        /\ pc' = IF outcome'.kind = "raise" THEN "Raised" ELSE "Done"
        /\ UNCHANGED <<models, provider, query, start_time, llm_reply, selection>>

Next ==
    \/ StartQuery
    \/ StubSelects
    \/ ProviderSelects
    \/ SelectionRaised
    \/ NoneSelected
    \/ RecordsNotFound
    \/ RecordsFound
    \/ DirectReturns
    \/ DirectRaises
    \/ SolutionReturns
    \/ SolutionRaises

Spec == Init /\ [][Next]_vars

\* ------------------------------------------------------------------------
\* What the claims read off a state
\* ------------------------------------------------------------------------

\* process_query returned
Done == pc = "Done"

\* process_query ended on an exception that left it
Escaped == pc = "Raised"

\* the QueryResult process_query returned
Result == outcome.value

\* the events of `calls` that are calls, in order
CallsMade ==
    LET isCall(event) == event.ev = "call"
    IN  SelectSeq(calls, isCall)

\* the last event of `calls` is the end of a call of op
LastEndIs(op) ==
    /\ calls # <<>>
    /\ calls[Len(calls)].ev = "end"
    /\ calls[Len(calls)].op = op

LastOutcome == calls[Len(calls)].outcome

\* some gateway call of process_query raised
SomeCallRaised ==
    \E i \in 1..Len(calls) :
        calls[i].ev = "end" /\ calls[i].outcome.kind = "raise"

\* the selection call returned a list of IDs
SelectionReturned == selection.kind = "return"

IndexIds == {models[i].id : i \in 1..Len(models)}

\* the IDs the selection returned that are keys of the index
Resolved ==
    {selection.value[n] : n \in 1..Len(selection.value)} \cap IndexIds

\* the paths of process_query, told by its gateway calls
FallbackPath ==
    LastEndIs("generate_response") /\ LastOutcome.kind = "return"
        /\ LastOutcome.value # NoneVal
SuccessPath == LastEndIs("request_solution") /\ LastOutcome.kind = "return"
NotFoundPath ==
    LastEndIs("request_model_selection") /\ SelectionReturned
        /\ selection.value # <<>>

\* ------------------------------------------------------------------------
\* Claims
\* ------------------------------------------------------------------------

\* C1 as stated: process_query never lets an exception escape: whatever the
\* query, the index and the way each gateway call ends (returning, or
\* raising any exception), the call ends by returning a QueryResult for its
\* query.
C1_Original ==
    /\ outcome.kind # "raise"
    /\ (Done \/ Escaped) =>
          /\ outcome.kind = "return"
          /\ DOMAIN Result = {"query", "selected_models", "solution",
                              "processing_time", "error"}
          /\ Result.query = query

\* the exception of the gateway call that raised
RaisedExc ==
    calls[CHOOSE i \in 1..Len(calls) :
            calls[i].ev = "end" /\ calls[i].outcome.kind = "raise"].outcome.exc

\* C1 as amended: whatever the query, the index and the way each gateway
\* call ends, process_query returns a QueryResult for its query when every
\* gateway call returned or raised an exception that derives from Exception;
\* an exception that does not (KeyboardInterrupt, SystemExit, GeneratorExit)
\* leaves process_query as it is.
C1_Amended ==
    /\ (outcome.kind = "raise" <=> Escaped)
    /\ Escaped =>
          /\ SomeCallRaised
          /\ ~IsException(RaisedExc)
          /\ outcome = Raise(RaisedExc)
    /\ Done =>
          /\ outcome.kind = "return"
          /\ SomeCallRaised => IsException(RaisedExc)
          /\ DOMAIN Result = {"query", "selected_models", "solution",
                              "processing_time", "error"}
          /\ Result.query = query

\* a query ended although one of its gateway calls raised
C1_Witness == Done /\ SomeCallRaised /\ outcome.kind = "return"

\* C2 as stated: every QueryResult has a non-empty solution text and a
\* processing_time, on every path and whatever text the gateway returned.
C2_Original ==
    Done =>
        /\ Result.solution # <<>>
        /\ Result.solution # NoneVal
        /\ Result.processing_time # NoTime

\* C2 as amended: every QueryResult has a processing_time; on the fallback,
\* records-not-found and exception paths its solution text is non-empty
\* whatever the gateway returned; on the success path the solution is what
\* request_solution returned, empty when that is empty.
C2_Amended ==
    Done =>
        /\ Result.processing_time # NoTime
        /\ Result.processing_time >= 0
        /\ IF SuccessPath
           THEN Result.solution = LastOutcome.value
           ELSE Result.solution # <<>> /\ Result.solution # NoneVal

\* the success path ended with the empty text request_solution returned
C2_Witness ==
    Done /\ SuccessPath /\ LastOutcome.value = <<>> /\ Result.solution = <<>>

\* C3: the selection call is the first gateway call, is made once and has
\* ended before any other call is made; it is followed by one direct
\* generate_response call exactly when it returned an empty list, by one
\* request_solution call with a non-empty record list exactly when one of the
\* returned IDs resolves, and by no call otherwise; a direct call and a
\* request_solution call never both occur.
C3_CallOrder ==
    /\ pc # "Start" =>
          /\ CallsMade # <<>>
          /\ calls[1].ev = "call"
          /\ calls[1].op = "request_model_selection"
    /\ \A i \in 2..Len(calls) :
          calls[i].ev = "call" =>
              /\ calls[i].op # "request_model_selection"
              /\ i = 3
              /\ calls[2].ev = "end"
              /\ calls[2].op = "request_model_selection"
    /\ Len(CallsMade) <= 2
    /\ \A i \in 1..Len(calls) :
          (calls[i].ev = "call" /\ calls[i].op = "request_solution")
              => calls[i].args.selected_models # <<>>
    /\ Done =>
          /\ (\E i \in 1..Len(calls) :
                  calls[i].ev = "call" /\ calls[i].op = "generate_response")
                <=> (SelectionReturned /\ selection.value = <<>>)
          /\ (\E i \in 1..Len(calls) :
                  calls[i].ev = "call" /\ calls[i].op = "request_solution")
                <=> (SelectionReturned /\ Resolved # {})
          /\ Len(CallsMade) = 1
                <=> \/ ~SelectionReturned
                    \/ selection.value # <<>> /\ Resolved = {}

\* a query ended after a selection call and a request_solution call
C3_Witness ==
    /\ Done
    /\ Len(CallsMade) = 2
    /\ CallsMade[2].op = "request_solution"

\* C4: when the selection returns an empty list and the direct
\* generate_response call returns a text, that call was made with the raw
\* query and no system prompt, and the result has no selected models, no
\* error, and the fallback preamble followed by the returned text as its
\* solution.
C4_DirectFallback ==
    (/\ Done
     /\ SelectionReturned
     /\ selection.value = <<>>
     /\ LastEndIs("generate_response")
     /\ LastOutcome.kind = "return"
     /\ LastOutcome.value # NoneVal)
    => /\ Len(calls) = 4
       /\ calls[3].ev = "call"
       /\ calls[3].op = "generate_response"
       /\ calls[3].args.prompt = query
       /\ calls[3].args.system_prompt = NoneVal
       /\ Result.selected_models = <<>>
       /\ Result.error = NoneVal
       /\ Result.solution = FallbackPreamble \o LastOutcome.value

\* the fallback answered a non-empty query with a non-empty text
C4_Witness ==
    /\ Done
    /\ SelectionReturned
    /\ selection.value = <<>>
    /\ FallbackPath
    /\ query # <<>>
    /\ LastOutcome.value # <<>>
    /\ Len(Result.solution) > Len(FallbackPreamble)

\* C5: when the selection returns a non-empty list of IDs that are all in
\* the index and request_solution returns, the result carries the selection
\* list in the same order, the returned text as its solution and no error.
C5_Success ==
    (/\ Done
     /\ SelectionReturned
     /\ selection.value # <<>>
     /\ \A n \in 1..Len(selection.value) : selection.value[n] \in IndexIds
     /\ SuccessPath)
    => /\ Result.selected_models = selection.value
       /\ Result.solution = LastOutcome.value
       /\ Result.error = NoneVal

\* a solution for a selection whose order differs from the index order
C5_Witness ==
    /\ Done
    /\ SuccessPath
    /\ Len(models) = 2
    /\ models[1].id = IdA
    /\ SelectionReturned
    /\ selection.value = <<IdB, IdA>>
    /\ Result.selected_models = <<IdB, IdA>>
    /\ Result.solution # <<>>
    /\ Result.solution # NoneVal

\* C6: when the selection returns a non-empty list and none of its IDs is a
\* key of the index, no solution-generation call is made and the result
\* carries the unresolved ID list, a non-empty solution text and a non-empty
\* error.
C6_RecordsNotFound ==
    (/\ Done
     /\ SelectionReturned
     /\ selection.value # <<>>
     /\ Resolved = {})
    => /\ Len(CallsMade) = 1
       /\ Result.selected_models = selection.value
       /\ Result.solution # <<>>
       /\ Result.solution # NoneVal
       /\ Result.error # NoneVal
       /\ Result.error # <<>>

\* IDs unknown to a non-empty index were selected
C6_Witness ==
    /\ Done
    /\ models # <<>>
    /\ SelectionReturned
    /\ selection.value # <<>>
    /\ Resolved = {}
    /\ Result.error = NotFoundError

\* s ends with suffix
EndsWith(s, suffix) ==
    /\ Len(s) >= Len(suffix)
    /\ SubSeq(s, Len(s) - Len(suffix) + 1, Len(s)) = suffix

\* the except clause of process_query ran: a gateway call raised, or next()
\* of the iterator over the index did, in phase_1_model_selection or in
\* fetch_model_data
Failed == SomeCallRaised \/ reader.raised

\* the exception the except clause caught
Caught == IF reader.raised THEN DictChanged ELSE RaisedExc

\* C7 as stated: when a gateway call or the record fetch raises (in the
\* selection, in the direct fallback, or in the solution generation after
\* models were selected), the result that process_query returns has no
\* selected models, a populated (non-empty) error field that holds the text
\* of the exception, and a solution that echoes that text.
C7_Original ==
    (Done /\ Failed)
    => /\ Result.selected_models = <<>>
       /\ Result.error # NoneVal
       /\ Result.error # <<>>
       /\ Result.error = Caught.msg
       /\ Result.solution # NoneVal
       /\ EndsWith(Result.solution, Caught.msg)

\* C7 as amended: when a gateway call or a read of the index raises an
\* exception that derives from Exception (in the selection, in the direct
\* fallback, in the record fetch, or in the solution generation after
\* models were selected), the result that process_query returns has no
\* selected models, its error field is str(e), a text and not None, which
\* is empty when the exception has no message, and its solution is the
\* non-empty text "An error occurred while processing your query: "
\* followed by that same text.
C7_Amended ==
    (Done /\ Failed)
    => /\ Result.selected_models = <<>>
       /\ Result.error # NoneVal
       /\ Result.error = Caught.msg
       /\ Result.solution # NoneVal
       /\ Len(Result.solution) > Len(Caught.msg)
       /\ Result.solution = ErrorPrefix \o Caught.msg

\* the record fetch raised: two models had been selected, fetch_model_data
\* had read one entry of the index when load_all_models cleared it
C7_Witness ==
    /\ Done
    /\ reader.raised
    /\ LastEndIs("request_model_selection")
    /\ selection = Return(<<IdB, IdA>>)
    /\ Len(reader.items) = 1
    /\ Result.selected_models = <<>>
    /\ Result.error = DictChanged.msg

IsArrayOfStrings(text) ==
    LET d == JsonLoads(text, SelectionFrames(1))
    IN  /\ d.ok
        /\ d.val.t = "list"
        /\ \A i \in 1..Len(d.val.v) : d.val.v[i].t = "str"

\* the strings such an array lists
ListedIds(text) ==
    LET d == JsonLoads(text, SelectionFrames(1))
    IN  [i \in 1..Len(d.val.v) |-> d.val.v[i].v]

\* the first n elements of the subsequence of ids that are candidates
RECURSIVE FirstCandidates(_, _, _)
FirstCandidates(ids, candidates, n) ==
    IF ids = <<>> \/ n = 0 THEN <<>>
    ELSE IF Head(ids) \in candidates
         THEN <<Head(ids)>> \o FirstCandidates(Tail(ids), candidates, n - 1)
    ELSE FirstCandidates(Tail(ids), candidates, n)

\* the provider has post-processed the text its generate_response returned
ProviderSelected ==
    /\ pc = "Selected"
    /\ provider # "stub"
    /\ llm_reply.kind = "return"
    /\ llm_reply.value # NoneVal

\* C9: for a selection response that is a JSON array of strings of any
\* length, request_model_selection of either provider returns the first (at
\* most) three elements of the subsequence of the response whose IDs are
\* candidate IDs, in the order of the response.
C9_FilterTruncate ==
    (ProviderSelected /\ IsArrayOfStrings(llm_reply.value))
    => selection =
          Return(FirstCandidates(ListedIds(llm_reply.value), IndexIds, 3))

\* a response listing five IDs, one of them no candidate: the unknown ID is
\* dropped, the first three survivors are returned in the response's order
C9_Witness ==
    /\ ProviderSelected
    /\ IndexIds = {IdA, IdB}
    /\ llm_reply.value = JsonArray(<<IdB, IdZ, IdA, IdA, IdB>>)
    /\ selection = Return(<<IdB, IdA, IdA>>)

\* the response text is no JSON array once its fence is stripped:
\* unparsable text, or JSON of another shape
NotAnArray(text) ==
    LET d == JsonLoads(StripFence(text), SelectionFrames(1))
    IN  ~d.ok \/ d.val.t # "list"

\* C10: for a selection response that cannot be parsed as a JSON array
\* (unparsable text, or valid JSON of another shape: a number, null, a
\* string, an object), request_model_selection of either provider returns an
\* empty list and does not raise.
C10_DegradesToEmpty ==
    (ProviderSelected /\ NotAnArray(llm_reply.value))
    => selection = Return(<<>>)

\* ------------------------------------------------------------------------
\* C11, C16: the post-processing of the selection response
\* ------------------------------------------------------------------------

\* the text is the array of ids inside a fenced code block: three
\* backticks, a language tag or none, the array, three backticks
FencedArray(text, ids) ==
    /\ text \in Wrappings(JsonArray(ids))
    /\ StartsWith(text, Fence)

\* ids lists candidate IDs only
CandidateIds(ids) == \A n \in 1..Len(ids) : ids[n] \in IndexIds

\* C11: for every JSON array J of candidate IDs, request_model_selection
\* returns for J inside a fenced code block, whatever its language tag, the
\* list it returns for the bare response J.
C11_FenceInsensitive ==
    (ProviderSelected /\ llm_reply.kind = "return" /\ llm_reply.value # NoneVal)
        => \A ids \in IdLists :
              (CandidateIds(ids) /\ FencedArray(llm_reply.value, ids))
                  => selection = request_model_selection(
                         Return(JsonArray(ids)), AvailableModels(models),
                         SelectionFrames(1))

\* C16: for every candidate set and raw response text the two providers'
\* request_model_selection end the same way: the same returned list, or
\* both raise.
C16_ProvidersAgree ==
    ProviderSelected
        => \A caller \in CallerFrames :
               LET openai == OpenAIClient_request_model_selection(
                                 llm_reply, AvailableModels(models),
                                 SelectionFrames(caller))
                   gemini == GeminiClient_request_model_selection(
                                 llm_reply, AvailableModels(models),
                                 SelectionFrames(caller))
               IN  /\ openai.kind = gemini.kind
                   /\ openai.kind = "return" => openai.value = gemini.value

\* ------------------------------------------------------------------------
\* The gateway's own calls (src/src/core/llm_client.py): test_connection,
\* generate_response, _make_request with its retry loop, _extract_content
\* ------------------------------------------------------------------------

\* most attempts a configuration allows
MaxRetries == 3
\* longest base delay of a configuration, in units of time
MaxRetryDelay == 2

\* a JSON object with its values: vals[n] is the value of the key v[n]
JObject(keys, vals) == [t |-> "dict", v |-> keys, vals |-> vals]

\* repr of a str key, as str(KeyError(key)) shows it
Repr(key) == <<"'">> \o key \o <<"'">>

\* TypeError of subscripting a value that has no items
NotSubscriptable(t) ==
    Exc("TypeError", <<"'">> \o TypeName(t) \o <<"'", " ", "o", "b", "j", "e", "c", "t", " ", "i", "s", " ", "n",
       "o", "t", " ", "s", "u", "b", "s", "c", "r", "i", "p", "t", "a",
       "b", "l", "e">>)

\* val[key] with a str key
SubscriptKey(val, key) ==
    IF val.t = "dict"
    THEN IF \E n \in 1..Len(val.v) : val.v[n] = key
         THEN Return(val.vals[CHOOSE n \in 1..Len(val.v) : val.v[n] = key])
         ELSE Raise(Exc("KeyError", Repr(key)))
    ELSE IF val.t = "list"
    THEN Raise(Exc("TypeError",
             <<"l", "i", "s", "t", " ", "i", "n", "d", "i", "c", "e", "s", " ",
       "m", "u", "s", "t", " ", "b", "e", " ", "i", "n", "t", "e", "g",
       "e", "r", "s", " ", "o", "r", " ", "s", "l", "i", "c", "e", "s",
       ",", " ", "n", "o", "t", " ", "s", "t", "r">>))
    ELSE IF val.t = "str"
    THEN Raise(Exc("TypeError", <<"s", "t", "r", "i", "n", "g", " ", "i", "n", "d", "i", "c", "e",
       "s", " ", "m", "u", "s", "t", " ", "b", "e", " ", "i", "n", "t",
       "e", "g", "e", "r", "s", ",", " ", "n", "o", "t", " ", "'", "s",
       "t", "r", "'">>))
    ELSE Raise(NotSubscriptable(val.t))

\* val[0]
SubscriptFirst(val) ==
    IF val.t = "list"
    THEN IF Len(val.v) > 0 THEN Return(val.v[1])
         ELSE Raise(Exc("IndexError", <<"l", "i", "s", "t", " ", "i", "n", "d", "e", "x", " ", "o", "u",
       "t", " ", "o", "f", " ", "r", "a", "n", "g", "e">>))
    ELSE IF val.t = "str"
    THEN IF Len(val.v) > 0 THEN Return(JStr(<<val.v[1]>>))
         ELSE Raise(Exc("IndexError", <<"s", "t", "r", "i", "n", "g", " ", "i", "n", "d", "e", "x", " ",
       "o", "u", "t", " ", "o", "f", " ", "r", "a", "n", "g", "e">>))
    ELSE IF val.t = "dict" THEN Raise(Exc("KeyError", <<"0">>))
    ELSE Raise(NotSubscriptable(val.t))

\* the Python value of a decoded content: the text of a str, None for
\* null, and the list, dict or number of any other content
PyValue(val) ==
    IF val.t = "str" THEN val.v
    ELSE IF val.t = "NoneType" THEN NoneVal
    ELSE <<"value", val>>

\* except (KeyError, IndexError) as e: raise ValueError(...)
InvalidFormat(exc) ==
    IF exc.type \in {"KeyError", "IndexError"}
    THEN Exc("ValueError", <<"I", "n", "v", "a", "l", "i", "d", " ", "A", "P", "I", " ", "r",
       "e", "s", "p", "o", "n", "s", "e", " ", "f", "o", "r", "m", "a",
       "t", ":", " ">> \o exc.msg)
    ELSE exc

\* _extract_content: response['choices'][0]['message']['content']
extract_content(body) ==
    LET choices == SubscriptKey(body, <<"c", "h", "o", "i", "c", "e", "s">>)
    IN  IF choices.kind = "raise" THEN Raise(InvalidFormat(choices.exc))
        ELSE LET first == SubscriptFirst(choices.value)
        IN  IF first.kind = "raise" THEN Raise(InvalidFormat(first.exc))
        ELSE LET message == SubscriptKey(first.value, <<"m", "e", "s", "s", "a", "g", "e">>)
        IN  IF message.kind = "raise" THEN Raise(InvalidFormat(message.exc))
        ELSE LET content == SubscriptKey(message.value, <<"c", "o", "n", "t", "e", "n", "t">>)
        IN  IF content.kind = "raise" THEN Raise(InvalidFormat(content.exc))
            ELSE Return(PyValue(content.value))

\* the configurations of the retry loop
Configs ==
    [max_retries : 0..MaxRetries, retry_delay : 0..MaxRetryDelay]

\* texts an LLM answers the canned prompt of test_connection with
\* (one with the Kelvin sign U+212A for its k, one with the capital I with
\* a dot above, whose lowercase is two characters, between o and k)
CannedReplies ==
    { <<>>, <<"O", "K">>, <<"o", "k">>, <<"O", "k", ".">>, <<"I", " ", "a", "m", " ", "o", "K">>, <<"K", "O">>, <<"n", "o">>,
      <<"o", "U+212A">>, <<"O", "U+0130", "K">> }

\* a body of the shape the API documents, with a str or null content
ChatCompletion(content) ==
    JObject(<< <<"i", "d">>, <<"c", "h", "o", "i", "c", "e", "s">> >>,
            << JStr(<<"c", "1">>),
               JList(<< JObject(<< <<"m", "e", "s", "s", "a", "g", "e">> >>,
                                << JObject(<< <<"r", "o", "l", "e">>, <<"c", "o", "n", "t", "e", "n", "t">> >>,
                                           << JStr(<<"a", "s", "s", "i", "s", "t", "a", "n", "t">>), content >>) >>) >>) >>)

\* JSON bodies of another shape
OtherBodies ==
    { JObject(<<>>, <<>>),
      JObject(<< <<"e", "r", "r", "o", "r">> >>, << JStr(<<"b", "a", "d">>) >>),
      JObject(<< <<"c", "h", "o", "i", "c", "e", "s">> >>, << JList(<<>>) >>),
      JObject(<< <<"c", "h", "o", "i", "c", "e", "s">> >>, << JList(<< JObject(<<>>, <<>>) >>) >>),
      JObject(<< <<"c", "h", "o", "i", "c", "e", "s">> >>,
              << JList(<< JObject(<< <<"m", "e", "s", "s", "a", "g", "e">> >>, << JObject(<<>>, <<>>) >>) >>) >>),
      JObject(<< <<"c", "h", "o", "i", "c", "e", "s">> >>, << JNull >>),
      JObject(<< <<"c", "h", "o", "i", "c", "e", "s">> >>,
              << JList(<< JObject(<< <<"m", "e", "s", "s", "a", "g", "e">> >>, << JNull >>) >>) >>),
      JList(<<>>) }

\* contents that are no text: lists with and without the item "OK", a
\* number, objects with and without the key "OK"
OtherContents ==
    { JList(<<JStr(<<"O", "K">>)>>), JList(<<JStr(<<"o", "k">>)>>), JInt,
      JDict(<< <<"O", "K">> >>), JDict(<<>>) }

\* the JSON bodies of a 2xx response
Bodies ==
    {ChatCompletion(JStr(text)) : text \in CannedReplies}
        \cup {ChatCompletion(JNull)}
        \cup {ChatCompletion(content) : content \in OtherContents}
        \cup OtherBodies

\* exceptions of the requests library
ConnectionError == Exc("ConnectionError", <<"r", "e", "f", "u", "s", "e", "d">>)
Timeout == Exc("Timeout", <<"t", "i", "m", "e", "d", " ", "o", "u", "t">>)
\* str.rstrip('/')
RECURSIVE RStripSlash(_)
RStripSlash(s) ==
    IF s # <<>> /\ s[Len(s)] = "/" THEN RStripSlash(SubSeq(s, 1, Len(s) - 1))
    ELSE s

\* the endpoint _make_request posts to
Endpoint(api_url) ==
    IF \/ Len(api_url) >= 3 /\ SubSeq(api_url, Len(api_url) - 2, Len(api_url)) = <<"/", "v", "1">>
       \/ Len(api_url) >= 4 /\ SubSeq(api_url, Len(api_url) - 3, Len(api_url)) = <<"/", "v", "1", "/">>
    THEN RStripSlash(api_url) \o <<"/", "c", "h", "a", "t", "/", "c", "o", "m", "p", "l", "e", "t", "i", "o", "n", "s">>
    ELSE RStripSlash(api_url) \o
             <<"/", "v", "1", "/", "c", "h", "a", "t", "/", "c", "o", "m", "p", "l", "e", "t", "i", "o", "n", "s">>

\* the HTTPError of response.raise_for_status(), which it raises for a
\* status from 400 to 599
HTTPError(status, reason, url) ==
    Exc("HTTPError",
        IntStr(status)
            \o (IF status < 500 THEN <<" ", "C", "l", "i", "e", "n", "t", " ", "E", "r", "r", "o", "r", ":", " ">>
                ELSE <<" ", "S", "e", "r", "v", "e", "r", " ", "E", "r", "r", "o", "r", ":", " ">>)
            \o reason \o <<" ", "f", "o", "r", " ", "u", "r", "l", ":", " ">> \o url)
JSONDecodeError == Exc("JSONDecodeError", <<"E", "x", "p", "e", "c", "t", "i", "n", "g", " ", "v", "a", "l",
       "u", "e", ":", " ", "l", "i", "n", "e", " ", "1", " ", "c", "o",
       "l", "u", "m", "n", " ", "1", " ", "(", "c", "h", "a", "r", " ",
       "0", ")">>)

\* an HTTP response: its status, its reason phrase, its URL and what
\* response.json() makes of its body
HttpResponse(status, reason, url, json) ==
    [status |-> status, reason |-> reason, url |-> url, json |-> json]

\* the api_url of the configuration, and the status lines of the server
ApiUrl == <<"h", "t", "t", "p", ":", "/", "/", "l", "l", "m", ".", "i", "n", "v", "a", "l", "i", "d">>
StatusLines ==
    { <<200, <<"O", "K">>>>, <<401, <<"U", "n", "a", "u", "t", "h", "o", "r", "i", "z", "e", "d">>>>,
      <<500, <<"I", "n", "t", "e", "r", "n", "a", "l", " ", "S", "e", "r", "v", "e", "r", " ", "E", "r", "r", "o", "r">>>>,
      <<600, <<>> >> }

\* how session.post ends: it raises, or returns a response
PostOutcomes ==
    {Raise(ConnectionError), Raise(Timeout),
     Raise(Exc("ReadTimeout", <<"r", "e", "a", "d", " ", "t", "i", "m", "e", "d", " ", "o", "u", "t">>)),
     Raise(Exc("KeyboardInterrupt", <<>>))}
        \cup {Return(HttpResponse(line[1], line[2], Endpoint(ApiUrl),
                                  Raise(JSONDecodeError))) : line \in StatusLines}
        \cup {Return(HttpResponse(200, <<"O", "K">>, Endpoint(ApiUrl), Return(body))) :
                 body \in Bodies}

\* the body of the try block: post, raise_for_status, response.json()
TryRequest(post) ==
    IF post.kind = "raise" THEN post
    ELSE IF post.value.status \in 400..599
    THEN Raise(HTTPError(post.value.status, post.value.reason, post.value.url))
    ELSE post.value.json

\* the classes of requests.exceptions that derive from RequestException
\* (the warnings of the module do not)
RequestExceptions ==
    {"RequestException", "InvalidJSONError", "HTTPError", "ConnectionError",
     "ProxyError", "SSLError", "Timeout", "ConnectTimeout", "ReadTimeout",
     "URLRequired", "TooManyRedirects", "MissingSchema", "InvalidSchema",
     "InvalidURL", "InvalidHeader", "InvalidProxyURL", "ChunkedEncodingError",
     "ContentDecodingError", "StreamConsumedError", "RetryError",
     "UnrewindableBodyError"}

\* except requests.exceptions.RequestException: an exception of the requests
\* library is told by the name of its class; from requests 2.27 on the error
\* of response.json() is a RequestException, before it is not
IsRequestException(exc, version) ==
    \/ exc.type \in RequestExceptions
    \/ exc.type = "JSONDecodeError" /\ version = "2.27"

RECURSIVE Pow2(_)
Pow2(n) == IF n = 0 THEN 1 ELSE 2 * Pow2(n - 1)

\* a faulty variant: the delay does not grow
Backoff_Constant(retry_delay, n) == retry_delay

\* retry_delay * (2 ** attempt)
Backoff(retry_delay, n) == retry_delay * Pow2(n)

\* a faulty variant: a sleep follows every failed attempt
SleepsAfter_Always(n, max_retries) == TRUE

\* if attempt < self.config.max_retries - 1
SleepsAfter(n, max_retries) == n < max_retries - 1

\* str() of last_error
ErrorStr(error) == error.msg

\* the RuntimeError raised after the loop
RequestExhausted(max_retries, error) ==
    Exc("RuntimeError",
        <<"O", "p", "e", "n", "A", "I", " ", "A", "P", "I", " ", "r", "e",
       "q", "u", "e", "s", "t", " ", "f", "a", "i", "l", "e", "d", " ",
       "a", "f", "t", "e", "r", " ">> \o IntStr(max_retries)
            \o <<" ", "a", "t", "t", "e", "m", "p", "t", "s", ".", " ", "L", "a",
       "s", "t", " ", "e", "r", "r", "o", "r", ":", " ">> \o ErrorStr(error))

\* what Gemini's generate_content and response.text end with
GeminiOutcomes ==
    {Return(text) : text \in CannedReplies} \cup {Raise(e) : e \in GatewayErrors}

\* GeminiClient.generate_response: except Exception as e makes a
\* RuntimeError of an Exception, any other exception leaves the call
GeminiClient_generate_response(how) ==
    IF how.kind = "raise" /\ IsException(how.exc)
    THEN Raise(Exc("RuntimeError",
                   <<"G", "e", "m", "i", "n", "i", " ", "A", "P", "I", " ", "r", "e",
       "q", "u", "e", "s", "t", " ", "f", "a", "i", "l", "e", "d", ":",
       " ">> \o how.exc.msg))
    ELSE how

\* str.lower() follows the Unicode character database (version 14.0 in
\* CPython 3.11).  ToLower maps each character that has a lowercase of one
\* character to it; the runs are <<first, last, step, delta>>: every
\* step-th code point from first to last maps to the one delta above it
ToLower ==
    LET runs == {
          <<65, 90, 1, 32>>, <<192, 214, 1, 32>>, <<216, 222, 1, 32>>,
          <<256, 302, 2, 1>>, <<306, 310, 2, 1>>, <<313, 327, 2, 1>>, <<330,
          374, 2, 1>>, <<376, 376, 1, -121>>, <<377, 381, 2, 1>>, <<385,
          385, 1, 210>>, <<386, 388, 2, 1>>, <<390, 390, 1, 206>>, <<391,
          391, 1, 1>>, <<393, 394, 1, 205>>, <<395, 395, 1, 1>>, <<398, 398,
          1, 79>>, <<399, 399, 1, 202>>, <<400, 400, 1, 203>>, <<401, 401,
          1, 1>>, <<403, 403, 1, 205>>, <<404, 404, 1, 207>>, <<406, 406, 1,
          211>>, <<407, 407, 1, 209>>, <<408, 408, 1, 1>>, <<412, 412, 1,
          211>>, <<413, 413, 1, 213>>, <<415, 415, 1, 214>>, <<416, 420, 2,
          1>>, <<422, 422, 1, 218>>, <<423, 423, 1, 1>>, <<425, 425, 1,
          218>>, <<428, 428, 1, 1>>, <<430, 430, 1, 218>>, <<431, 431, 1,
          1>>, <<433, 434, 1, 217>>, <<435, 437, 2, 1>>, <<439, 439, 1,
          219>>, <<440, 440, 1, 1>>, <<444, 444, 1, 1>>, <<452, 452, 1, 2>>,
          <<453, 453, 1, 1>>, <<455, 455, 1, 2>>, <<456, 456, 1, 1>>, <<458,
          458, 1, 2>>, <<459, 475, 2, 1>>, <<478, 494, 2, 1>>, <<497, 497,
          1, 2>>, <<498, 500, 2, 1>>, <<502, 502, 1, -97>>, <<503, 503, 1,
          -56>>, <<504, 542, 2, 1>>, <<544, 544, 1, -130>>, <<546, 562, 2,
          1>>, <<570, 570, 1, 10795>>, <<571, 571, 1, 1>>, <<573, 573, 1,
          -163>>, <<574, 574, 1, 10792>>, <<577, 577, 1, 1>>, <<579, 579, 1,
          -195>>, <<580, 580, 1, 69>>, <<581, 581, 1, 71>>, <<582, 590, 2,
          1>>, <<880, 882, 2, 1>>, <<886, 886, 1, 1>>, <<895, 895, 1, 116>>,
          <<902, 902, 1, 38>>, <<904, 906, 1, 37>>, <<908, 908, 1, 64>>,
          <<910, 911, 1, 63>>, <<913, 929, 1, 32>>, <<932, 939, 1, 32>>,
          <<975, 975, 1, 8>>, <<984, 1006, 2, 1>>, <<1012, 1012, 1, -60>>,
          <<1015, 1015, 1, 1>>, <<1017, 1017, 1, -7>>, <<1018, 1018, 1, 1>>,
          <<1021, 1023, 1, -130>>, <<1024, 1039, 1, 80>>, <<1040, 1071, 1,
          32>>, <<1120, 1152, 2, 1>>, <<1162, 1214, 2, 1>>, <<1216, 1216, 1,
          15>>, <<1217, 1229, 2, 1>>, <<1232, 1326, 2, 1>>, <<1329, 1366, 1,
          48>>, <<4256, 4293, 1, 7264>>, <<4295, 4295, 1, 7264>>, <<4301,
          4301, 1, 7264>>, <<5024, 5103, 1, 38864>>, <<5104, 5109, 1, 8>>,
          <<7312, 7354, 1, -3008>>, <<7357, 7359, 1, -3008>>, <<7680, 7828,
          2, 1>>, <<7838, 7838, 1, -7615>>, <<7840, 7934, 2, 1>>, <<7944,
          7951, 1, -8>>, <<7960, 7965, 1, -8>>, <<7976, 7983, 1, -8>>,
          <<7992, 7999, 1, -8>>, <<8008, 8013, 1, -8>>, <<8025, 8031, 2,
          -8>>, <<8040, 8047, 1, -8>>, <<8072, 8079, 1, -8>>, <<8088, 8095,
          1, -8>>, <<8104, 8111, 1, -8>>, <<8120, 8121, 1, -8>>, <<8122,
          8123, 1, -74>>, <<8124, 8124, 1, -9>>, <<8136, 8139, 1, -86>>,
          <<8140, 8140, 1, -9>>, <<8152, 8153, 1, -8>>, <<8154, 8155, 1,
          -100>>, <<8168, 8169, 1, -8>>, <<8170, 8171, 1, -112>>, <<8172,
          8172, 1, -7>>, <<8184, 8185, 1, -128>>, <<8186, 8187, 1, -126>>,
          <<8188, 8188, 1, -9>>, <<8486, 8486, 1, -7517>>, <<8490, 8490, 1,
          -8383>>, <<8491, 8491, 1, -8262>>, <<8498, 8498, 1, 28>>, <<8544,
          8559, 1, 16>>, <<8579, 8579, 1, 1>>, <<9398, 9423, 1, 26>>,
          <<11264, 11311, 1, 48>>, <<11360, 11360, 1, 1>>, <<11362, 11362,
          1, -10743>>, <<11363, 11363, 1, -3814>>, <<11364, 11364, 1,
          -10727>>, <<11367, 11371, 2, 1>>, <<11373, 11373, 1, -10780>>,
          <<11374, 11374, 1, -10749>>, <<11375, 11375, 1, -10783>>, <<11376,
          11376, 1, -10782>>, <<11378, 11378, 1, 1>>, <<11381, 11381, 1,
          1>>, <<11390, 11391, 1, -10815>>, <<11392, 11490, 2, 1>>, <<11499,
          11501, 2, 1>>, <<11506, 11506, 1, 1>>, <<42560, 42604, 2, 1>>,
          <<42624, 42650, 2, 1>>, <<42786, 42798, 2, 1>>, <<42802, 42862, 2,
          1>>, <<42873, 42875, 2, 1>>, <<42877, 42877, 1, -35332>>, <<42878,
          42886, 2, 1>>, <<42891, 42891, 1, 1>>, <<42893, 42893, 1,
          -42280>>, <<42896, 42898, 2, 1>>, <<42902, 42920, 2, 1>>, <<42922,
          42922, 1, -42308>>, <<42923, 42923, 1, -42319>>, <<42924, 42924,
          1, -42315>>, <<42925, 42925, 1, -42305>>, <<42926, 42926, 1,
          -42308>>, <<42928, 42928, 1, -42258>>, <<42929, 42929, 1,
          -42282>>, <<42930, 42930, 1, -42261>>, <<42931, 42931, 1, 928>>,
          <<42932, 42946, 2, 1>>, <<42948, 42948, 1, -48>>, <<42949, 42949,
          1, -42307>>, <<42950, 42950, 1, -35384>>, <<42951, 42953, 2, 1>>,
          <<42960, 42960, 1, 1>>, <<42966, 42968, 2, 1>>, <<42997, 42997, 1,
          1>>, <<65313, 65338, 1, 32>>, <<66560, 66599, 1, 40>>, <<66736,
          66771, 1, 40>>, <<66928, 66938, 1, 39>>, <<66940, 66954, 1, 39>>,
          <<66956, 66962, 1, 39>>, <<66964, 66965, 1, 39>>, <<68736, 68786,
          1, 64>>, <<71840, 71871, 1, 32>>, <<93760, 93791, 1, 32>>,
          <<125184, 125217, 1, 34>> }
        pairs == UNION {{<<Chr(n), Chr(n + r[4])>> :
                            n \in {m \in r[1]..r[2] : (m - r[1]) % r[3] = 0}} :
                        r \in runs}
    IN  [c \in {p[1] : p \in pairs} |-> (CHOOSE p \in pairs : p[1] = c)[2]]

\* the characters with the property Case_Ignorable, as ranges of code points
CaseIgnorable ==
    UNION {{Chr(n) : n \in r[1]..r[2]} : r \in {
          <<39, 39>>, <<46, 46>>, <<58, 58>>, <<94, 94>>, <<96, 96>>, <<168,
          168>>, <<173, 173>>, <<175, 175>>, <<180, 180>>, <<183, 184>>,
          <<688, 879>>, <<884, 885>>, <<890, 890>>, <<900, 901>>, <<903,
          903>>, <<1155, 1161>>, <<1369, 1369>>, <<1375, 1375>>, <<1425,
          1469>>, <<1471, 1471>>, <<1473, 1474>>, <<1476, 1477>>, <<1479,
          1479>>, <<1524, 1524>>, <<1536, 1541>>, <<1552, 1562>>, <<1564,
          1564>>, <<1600, 1600>>, <<1611, 1631>>, <<1648, 1648>>, <<1750,
          1757>>, <<1759, 1768>>, <<1770, 1773>>, <<1807, 1807>>, <<1809,
          1809>>, <<1840, 1866>>, <<1958, 1968>>, <<2027, 2037>>, <<2042,
          2042>>, <<2045, 2045>>, <<2070, 2093>>, <<2137, 2139>>, <<2184,
          2184>>, <<2192, 2193>>, <<2200, 2207>>, <<2249, 2306>>, <<2362,
          2362>>, <<2364, 2364>>, <<2369, 2376>>, <<2381, 2381>>, <<2385,
          2391>>, <<2402, 2403>>, <<2417, 2417>>, <<2433, 2433>>, <<2492,
          2492>>, <<2497, 2500>>, <<2509, 2509>>, <<2530, 2531>>, <<2558,
          2558>>, <<2561, 2562>>, <<2620, 2620>>, <<2625, 2626>>, <<2631,
          2632>>, <<2635, 2637>>, <<2641, 2641>>, <<2672, 2673>>, <<2677,
          2677>>, <<2689, 2690>>, <<2748, 2748>>, <<2753, 2757>>, <<2759,
          2760>>, <<2765, 2765>>, <<2786, 2787>>, <<2810, 2815>>, <<2817,
          2817>>, <<2876, 2876>>, <<2879, 2879>>, <<2881, 2884>>, <<2893,
          2893>>, <<2901, 2902>>, <<2914, 2915>>, <<2946, 2946>>, <<3008,
          3008>>, <<3021, 3021>>, <<3072, 3072>>, <<3076, 3076>>, <<3132,
          3132>>, <<3134, 3136>>, <<3142, 3144>>, <<3146, 3149>>, <<3157,
          3158>>, <<3170, 3171>>, <<3201, 3201>>, <<3260, 3260>>, <<3263,
          3263>>, <<3270, 3270>>, <<3276, 3277>>, <<3298, 3299>>, <<3328,
          3329>>, <<3387, 3388>>, <<3393, 3396>>, <<3405, 3405>>, <<3426,
          3427>>, <<3457, 3457>>, <<3530, 3530>>, <<3538, 3540>>, <<3542,
          3542>>, <<3633, 3633>>, <<3636, 3642>>, <<3654, 3662>>, <<3761,
          3761>>, <<3764, 3772>>, <<3782, 3782>>, <<3784, 3789>>, <<3864,
          3865>>, <<3893, 3893>>, <<3895, 3895>>, <<3897, 3897>>, <<3953,
          3966>>, <<3968, 3972>>, <<3974, 3975>>, <<3981, 3991>>, <<3993,
          4028>>, <<4038, 4038>>, <<4141, 4144>>, <<4146, 4151>>, <<4153,
          4154>>, <<4157, 4158>>, <<4184, 4185>>, <<4190, 4192>>, <<4209,
          4212>>, <<4226, 4226>>, <<4229, 4230>>, <<4237, 4237>>, <<4253,
          4253>>, <<4348, 4348>>, <<4957, 4959>>, <<5906, 5908>>, <<5938,
          5939>>, <<5970, 5971>>, <<6002, 6003>>, <<6068, 6069>>, <<6071,
          6077>>, <<6086, 6086>>, <<6089, 6099>>, <<6103, 6103>>, <<6109,
          6109>>, <<6155, 6159>>, <<6211, 6211>>, <<6277, 6278>>, <<6313,
          6313>>, <<6432, 6434>>, <<6439, 6440>>, <<6450, 6450>>, <<6457,
          6459>>, <<6679, 6680>>, <<6683, 6683>>, <<6742, 6742>>, <<6744,
          6750>>, <<6752, 6752>>, <<6754, 6754>>, <<6757, 6764>>, <<6771,
          6780>>, <<6783, 6783>>, <<6823, 6823>>, <<6832, 6862>>, <<6912,
          6915>>, <<6964, 6964>>, <<6966, 6970>>, <<6972, 6972>>, <<6978,
          6978>>, <<7019, 7027>>, <<7040, 7041>>, <<7074, 7077>>, <<7080,
          7081>>, <<7083, 7085>>, <<7142, 7142>>, <<7144, 7145>>, <<7149,
          7149>>, <<7151, 7153>>, <<7212, 7219>>, <<7222, 7223>>, <<7288,
          7293>>, <<7376, 7378>>, <<7380, 7392>>, <<7394, 7400>>, <<7405,
          7405>>, <<7412, 7412>>, <<7416, 7417>>, <<7468, 7530>>, <<7544,
          7544>>, <<7579, 7679>>, <<8125, 8125>>, <<8127, 8129>>, <<8141,
          8143>>, <<8157, 8159>>, <<8173, 8175>>, <<8189, 8190>>, <<8203,
          8207>>, <<8216, 8217>>, <<8228, 8228>>, <<8231, 8231>>, <<8234,
          8238>>, <<8288, 8292>>, <<8294, 8303>>, <<8305, 8305>>, <<8319,
          8319>>, <<8336, 8348>>, <<8400, 8432>>, <<11388, 11389>>, <<11503,
          11505>>, <<11631, 11631>>, <<11647, 11647>>, <<11744, 11775>>,
          <<11823, 11823>>, <<12293, 12293>>, <<12330, 12333>>, <<12337,
          12341>>, <<12347, 12347>>, <<12441, 12446>>, <<12540, 12542>>,
          <<40981, 40981>>, <<42232, 42237>>, <<42508, 42508>>, <<42607,
          42610>>, <<42612, 42621>>, <<42623, 42623>>, <<42652, 42655>>,
          <<42736, 42737>>, <<42752, 42785>>, <<42864, 42864>>, <<42888,
          42890>>, <<42994, 42996>>, <<43000, 43001>>, <<43010, 43010>>,
          <<43014, 43014>>, <<43019, 43019>>, <<43045, 43046>>, <<43052,
          43052>>, <<43204, 43205>>, <<43232, 43249>>, <<43263, 43263>>,
          <<43302, 43309>>, <<43335, 43345>>, <<43392, 43394>>, <<43443,
          43443>>, <<43446, 43449>>, <<43452, 43453>>, <<43471, 43471>>,
          <<43493, 43494>>, <<43561, 43566>>, <<43569, 43570>>, <<43573,
          43574>>, <<43587, 43587>>, <<43596, 43596>>, <<43632, 43632>>,
          <<43644, 43644>>, <<43696, 43696>>, <<43698, 43700>>, <<43703,
          43704>>, <<43710, 43711>>, <<43713, 43713>>, <<43741, 43741>>,
          <<43756, 43757>>, <<43763, 43764>>, <<43766, 43766>>, <<43867,
          43871>>, <<43881, 43883>>, <<44005, 44005>>, <<44008, 44008>>,
          <<44013, 44013>>, <<64286, 64286>>, <<64434, 64450>>, <<65024,
          65039>>, <<65043, 65043>>, <<65056, 65071>>, <<65106, 65106>>,
          <<65109, 65109>>, <<65279, 65279>>, <<65287, 65287>>, <<65294,
          65294>>, <<65306, 65306>>, <<65342, 65342>>, <<65344, 65344>>,
          <<65392, 65392>>, <<65438, 65439>>, <<65507, 65507>>, <<65529,
          65531>>, <<66045, 66045>>, <<66272, 66272>>, <<66422, 66426>>,
          <<67456, 67461>>, <<67463, 67504>>, <<67506, 67514>>, <<68097,
          68099>>, <<68101, 68102>>, <<68108, 68111>>, <<68152, 68154>>,
          <<68159, 68159>>, <<68325, 68326>>, <<68900, 68903>>, <<69291,
          69292>>, <<69446, 69456>>, <<69506, 69509>>, <<69633, 69633>>,
          <<69688, 69702>>, <<69744, 69744>>, <<69747, 69748>>, <<69759,
          69761>>, <<69811, 69814>>, <<69817, 69818>>, <<69821, 69821>>,
          <<69826, 69826>>, <<69837, 69837>>, <<69888, 69890>>, <<69927,
          69931>>, <<69933, 69940>>, <<70003, 70003>>, <<70016, 70017>>,
          <<70070, 70078>>, <<70089, 70092>>, <<70095, 70095>>, <<70191,
          70193>>, <<70196, 70196>>, <<70198, 70199>>, <<70206, 70206>>,
          <<70367, 70367>>, <<70371, 70378>>, <<70400, 70401>>, <<70459,
          70460>>, <<70464, 70464>>, <<70502, 70508>>, <<70512, 70516>>,
          <<70712, 70719>>, <<70722, 70724>>, <<70726, 70726>>, <<70750,
          70750>>, <<70835, 70840>>, <<70842, 70842>>, <<70847, 70848>>,
          <<70850, 70851>>, <<71090, 71093>>, <<71100, 71101>>, <<71103,
          71104>>, <<71132, 71133>>, <<71219, 71226>>, <<71229, 71229>>,
          <<71231, 71232>>, <<71339, 71339>>, <<71341, 71341>>, <<71344,
          71349>>, <<71351, 71351>>, <<71453, 71455>>, <<71458, 71461>>,
          <<71463, 71467>>, <<71727, 71735>>, <<71737, 71738>>, <<71995,
          71996>>, <<71998, 71998>>, <<72003, 72003>>, <<72148, 72151>>,
          <<72154, 72155>>, <<72160, 72160>>, <<72193, 72202>>, <<72243,
          72248>>, <<72251, 72254>>, <<72263, 72263>>, <<72273, 72278>>,
          <<72281, 72283>>, <<72330, 72342>>, <<72344, 72345>>, <<72752,
          72758>>, <<72760, 72765>>, <<72767, 72767>>, <<72850, 72871>>,
          <<72874, 72880>>, <<72882, 72883>>, <<72885, 72886>>, <<73009,
          73014>>, <<73018, 73018>>, <<73020, 73021>>, <<73023, 73029>>,
          <<73031, 73031>>, <<73104, 73105>>, <<73109, 73109>>, <<73111,
          73111>>, <<73459, 73460>>, <<78896, 78904>>, <<92912, 92916>>,
          <<92976, 92982>>, <<92992, 92995>>, <<94031, 94031>>, <<94095,
          94111>>, <<94176, 94177>>, <<94179, 94180>>, <<110576, 110579>>,
          <<110581, 110587>>, <<110589, 110590>>, <<113821, 113822>>,
          <<113824, 113827>>, <<118528, 118573>>, <<118576, 118598>>,
          <<119143, 119145>>, <<119155, 119170>>, <<119173, 119179>>,
          <<119210, 119213>>, <<119362, 119364>>, <<121344, 121398>>,
          <<121403, 121452>>, <<121461, 121461>>, <<121476, 121476>>,
          <<121499, 121503>>, <<121505, 121519>>, <<122880, 122886>>,
          <<122888, 122904>>, <<122907, 122913>>, <<122915, 122916>>,
          <<122918, 122922>>, <<123184, 123197>>, <<123566, 123566>>,
          <<123628, 123631>>, <<125136, 125142>>, <<125252, 125259>>,
          <<127995, 127999>>, <<917505, 917505>>, <<917536, 917631>>,
          <<917760, 917999>> }}

\* the characters with the property Cased that are not case-ignorable, as
\* ranges of code points
Cased ==
    UNION {{Chr(n) : n \in r[1]..r[2]} : r \in {
          <<65, 90>>, <<97, 122>>, <<170, 170>>, <<181, 181>>, <<186, 186>>,
          <<192, 214>>, <<216, 246>>, <<248, 442>>, <<444, 447>>, <<452,
          659>>, <<661, 687>>, <<880, 883>>, <<886, 887>>, <<891, 893>>,
          <<895, 895>>, <<902, 902>>, <<904, 906>>, <<908, 908>>, <<910,
          929>>, <<931, 1013>>, <<1015, 1153>>, <<1162, 1327>>, <<1329,
          1366>>, <<1376, 1416>>, <<4256, 4293>>, <<4295, 4295>>, <<4301,
          4301>>, <<4304, 4346>>, <<4349, 4351>>, <<5024, 5109>>, <<5112,
          5117>>, <<7296, 7304>>, <<7312, 7354>>, <<7357, 7359>>, <<7424,
          7467>>, <<7531, 7543>>, <<7545, 7578>>, <<7680, 7957>>, <<7960,
          7965>>, <<7968, 8005>>, <<8008, 8013>>, <<8016, 8023>>, <<8025,
          8025>>, <<8027, 8027>>, <<8029, 8029>>, <<8031, 8061>>, <<8064,
          8116>>, <<8118, 8124>>, <<8126, 8126>>, <<8130, 8132>>, <<8134,
          8140>>, <<8144, 8147>>, <<8150, 8155>>, <<8160, 8172>>, <<8178,
          8180>>, <<8182, 8188>>, <<8450, 8450>>, <<8455, 8455>>, <<8458,
          8467>>, <<8469, 8469>>, <<8473, 8477>>, <<8484, 8484>>, <<8486,
          8486>>, <<8488, 8488>>, <<8490, 8493>>, <<8495, 8500>>, <<8505,
          8505>>, <<8508, 8511>>, <<8517, 8521>>, <<8526, 8526>>, <<8544,
          8575>>, <<8579, 8580>>, <<9398, 9449>>, <<11264, 11387>>, <<11390,
          11492>>, <<11499, 11502>>, <<11506, 11507>>, <<11520, 11557>>,
          <<11559, 11559>>, <<11565, 11565>>, <<42560, 42605>>, <<42624,
          42651>>, <<42786, 42863>>, <<42865, 42887>>, <<42891, 42894>>,
          <<42896, 42954>>, <<42960, 42961>>, <<42963, 42963>>, <<42965,
          42969>>, <<42997, 42998>>, <<43002, 43002>>, <<43824, 43866>>,
          <<43872, 43880>>, <<43888, 43967>>, <<64256, 64262>>, <<64275,
          64279>>, <<65313, 65338>>, <<65345, 65370>>, <<66560, 66639>>,
          <<66736, 66771>>, <<66776, 66811>>, <<66928, 66938>>, <<66940,
          66954>>, <<66956, 66962>>, <<66964, 66965>>, <<66967, 66977>>,
          <<66979, 66993>>, <<66995, 67001>>, <<67003, 67004>>, <<68736,
          68786>>, <<68800, 68850>>, <<71840, 71903>>, <<93760, 93823>>,
          <<119808, 119892>>, <<119894, 119964>>, <<119966, 119967>>,
          <<119970, 119970>>, <<119973, 119974>>, <<119977, 119980>>,
          <<119982, 119993>>, <<119995, 119995>>, <<119997, 120003>>,
          <<120005, 120069>>, <<120071, 120074>>, <<120077, 120084>>,
          <<120086, 120092>>, <<120094, 120121>>, <<120123, 120126>>,
          <<120128, 120132>>, <<120134, 120134>>, <<120138, 120144>>,
          <<120146, 120485>>, <<120488, 120512>>, <<120514, 120538>>,
          <<120540, 120570>>, <<120572, 120596>>, <<120598, 120628>>,
          <<120630, 120654>>, <<120656, 120686>>, <<120688, 120712>>,
          <<120714, 120744>>, <<120746, 120770>>, <<120772, 120779>>,
          <<122624, 122633>>, <<122635, 122654>>, <<125184, 125251>>,
          <<127280, 127305>>, <<127312, 127337>>, <<127344, 127369>> }}

\* the first position from i on, forwards (d = 1) or backwards (d = -1),
\* whose character is not case-ignorable; 0 or Len(s) + 1 when there is none
RECURSIVE SkipCaseIgnorable(_, _, _)
SkipCaseIgnorable(s, i, d) ==
    IF i \in 1..Len(s) /\ s[i] \in CaseIgnorable
    THEN SkipCaseIgnorable(s, i + d, d)
    ELSE i

\* handle_capital_sigma: the capital sigma at s[i] is final when a cased
\* character comes before it and none after it, case-ignorable characters
\* between them left aside
FinalSigma(s, i) ==
    /\ SkipCaseIgnorable(s, i - 1, -1) >= 1
    /\ s[SkipCaseIgnorable(s, i - 1, -1)] \in Cased
    /\ \/ SkipCaseIgnorable(s, i + 1, 1) = Len(s) + 1
       \/ s[SkipCaseIgnorable(s, i + 1, 1)] \notin Cased

\* str.lower() of a character on its own: a str of one character, or of two
\* for the capital I with a dot above (U+0130)
Lower(c) ==
    IF c = "U+0130" THEN <<"i", "U+0307">>
    ELSE IF c = "U+03A3" THEN <<"U+03C3">>
    ELSE IF c \in DOMAIN ToLower THEN <<ToLower[c]>>
    ELSE <<c>>

\* the lowercase of s from position i on: a final capital sigma becomes
\* U+03C2, every other character what it becomes on its own
RECURSIVE LowerFrom(_, _)
LowerFrom(s, i) ==
    IF i > Len(s) THEN <<>>
    ELSE (IF s[i] = "U+03A3" /\ FinalSigma(s, i) THEN <<"U+03C2">>
          ELSE Lower(s[i])) \o LowerFrom(s, i + 1)

\* str.lower()
LowerStr(s) == LowerFrom(s, 1)

\* sub in s
Contains(s, sub) ==
    \E i \in 0..(Len(s) - Len(sub)) : SubSeq(s, i + 1, i + Len(sub)) = sub

\* TypeError of `"OK" in value` for a value of a type that is no container
NotAContainer(t) ==
    Exc("TypeError",
        <<"a", "r", "g", "u", "m", "e", "n", "t", " ", "o", "f", " ", "t", "y", "p", "e", " ", "'">>
            \o TypeName(t)
            \o <<"'", " ", "i", "s", " ", "n", "o", "t", " ", "i", "t", "e", "r", "a", "b", "l", "e">>)

\* `"OK" in value` for a list (one of its items is the str "OK") or a dict
\* (one of its keys is)
HasItemOk(val) ==
    IF val.t = "list"
    THEN \E i \in 1..Len(val.v) :
            val.v[i].t = "str" /\ val.v[i].v = <<"O", "K">>
    ELSE \E i \in 1..Len(val.v) : val.v[i] = <<"O", "K">>

\* the try block of test_connection, generate_response having ended as
\* reply: `"OK" in response or "ok" in response.lower()`
ContainsOk(reply) ==
    IF reply.kind = "raise" THEN reply
    ELSE IF IsText(reply.value)
    THEN Return(\/ Contains(reply.value, <<"O", "K">>)
                \/ Contains(LowerStr(reply.value), <<"o", "k">>))
    ELSE IF PyType(reply.value) \in {"list", "dict"}
    THEN IF HasItemOk(reply.value[2]) THEN Return(TRUE)
         ELSE Raise(NoAttribute(PyType(reply.value), <<"l", "o", "w", "e", "r">>))
    ELSE Raise(NotAContainer(PyType(reply.value)))

\* a faulty variant: the reply is searched as it is, for "OK" only
test_connection_CaseSensitive(reply) ==
    IF reply.kind = "raise"
    THEN IF IsException(reply.exc) THEN Return(FALSE) ELSE reply
    ELSE IF ~IsText(reply.value) THEN Return(FALSE)
    ELSE Return(Contains(reply.value, <<"O", "K">>))

\* test_connection: except Exception: return False
test_connection(reply) ==
    IF ContainsOk(reply).kind = "raise" /\ IsException(ContainsOk(reply).exc)
    THEN Return(FALSE)
    ELSE ContainsOk(reply)

\* OpenAIClient.generate_response, _make_request having ended as made
OpenAIClient_generate_response(made) ==
    IF made.kind = "raise" THEN made ELSE extract_content(made.value)

\* a client is asked to test its connection; no query is in progress
GatewayInit ==
    /\ models = <<>>
    /\ provider \in {"openai", "gemini"}
    /\ pc = "Start"
    /\ query = <<>>
    /\ start_time = 0
    /\ now = 0
    /\ llm_reply = Pending
    /\ selection = Pending
    /\ calls = <<>>
    /\ outcome = Pending
    /\ config \in Configs
    /\ requests_version \in {"2.26", "2.27"}
    /\ step = "Idle"
    /\ attempt = 0
    /\ last_error = NoLastError
    /\ events = <<>>
    /\ result = Pending
    /\ response = Pending
    /\ connected = Pending
    /\ LoaderIdle
    /\ parked = NoCall
    /\ ParserIdle
    /\ WebIdle

\* _make_request ends as made: generate_response and test_connection end
MakeRequestEnds(made) ==
    /\ result' = made
    /\ response' = OpenAIClient_generate_response(made)
    /\ connected' = test_connection(response')
    /\ step' = "Done"

\* a faulty variant: the loop runs once more than max_retries
NextAttempt_OneMore(n, error) ==
    IF n <= config.max_retries
    THEN /\ step' = "Post"
         /\ attempt' = n
         /\ UNCHANGED <<result, response, connected>>
    ELSE /\ attempt' = attempt
         /\ MakeRequestEnds(Raise(RequestExhausted(config.max_retries, error)))

\* `for attempt in range(max_retries)` takes its next value n, or the loop
\* is over and the RuntimeError with the last error is raised
NextAttempt(n, error) ==
    IF n < config.max_retries
    THEN /\ step' = "Post"
         /\ attempt' = n
         /\ UNCHANGED <<result, response, connected>>
    ELSE /\ attempt' = attempt
         /\ MakeRequestEnds(Raise(RequestExhausted(config.max_retries, error)))

\* a POST of _make_request and how its try block ended
PostEvent(n, tried) == [ev |-> "post", attempt |-> n, outcome |-> tried]
SleepEvent(secs) == [ev |-> "sleep", secs |-> secs]

\* OpenAIClient.test_connection is called: generate_response calls
\* _make_request, which enters its loop
TestConnection ==
    /\ step = "Idle"
    /\ provider = "openai"
    /\ last_error' = NoLastError
    /\ NextAttempt(0, NoLastError)
    /\ UNCHANGED <<config, requests_version, events>>
    /\ UNCHANGED <<queryVars, loaderVars, parked, parserVars, webVars>>

\* GeminiClient.test_connection is called: generate_response calls
\* generate_content once, without a retry loop, and waits for it
GeminiTestConnection ==
    /\ step = "Idle"
    /\ provider = "gemini"
    /\ step' = "Generate"
    /\ UNCHANGED <<config, requests_version, attempt, last_error, events,
                   result, response, connected>>
    /\ UNCHANGED <<queryVars, loaderVars, parked, parserVars, webVars>>

\* generate_content is over: generate_response and test_connection end
GeminiGenerateEnds ==
    /\ step = "Generate"
    /\ \E how \in GeminiOutcomes :
        /\ response' = GeminiClient_generate_response(how)
        /\ connected' = test_connection(response')
        /\ step' = "Done"
    /\ UNCHANGED <<config, requests_version, attempt, last_error, events, result>>
    /\ UNCHANGED <<queryVars, loaderVars, parked, parserVars, webVars>>

\* an attempt gets a 2xx response with a JSON body: _make_request returns it
AttemptSucceeds ==
    /\ step = "Post"
    /\ \E post \in PostOutcomes :
        /\ TryRequest(post).kind = "return"
        /\ events' = Append(events, PostEvent(attempt, TryRequest(post)))
        /\ MakeRequestEnds(TryRequest(post))
    /\ UNCHANGED <<config, requests_version, attempt, last_error>>
    /\ UNCHANGED <<queryVars, loaderVars, parked, parserVars, webVars>>

\* an attempt raises a RequestException: it is kept as last_error, and the
\* loop sleeps before its next attempt, or is over
AttemptFails ==
    /\ step = "Post"
    /\ \E post \in PostOutcomes :
        /\ TryRequest(post).kind = "raise"
        /\ IsRequestException(TryRequest(post).exc, requests_version)
        /\ events' = Append(events, PostEvent(attempt, TryRequest(post)))
        /\ last_error' = TryRequest(post).exc
        /\ IF SleepsAfter(attempt, config.max_retries)
           THEN /\ step' = "Sleep"
                /\ UNCHANGED <<attempt, result, response, connected>>
           ELSE NextAttempt(attempt + 1, last_error')
    /\ UNCHANGED <<config, requests_version>>
    /\ UNCHANGED <<queryVars, loaderVars, parked, parserVars, webVars>>

\* an attempt raises an exception the loop does not catch
AttemptEscapes ==
    /\ step = "Post"
    /\ \E post \in PostOutcomes :
        /\ TryRequest(post).kind = "raise"
        /\ ~IsRequestException(TryRequest(post).exc, requests_version)
        /\ events' = Append(events, PostEvent(attempt, TryRequest(post)))
        /\ MakeRequestEnds(TryRequest(post))
    /\ UNCHANGED <<config, requests_version, attempt, last_error>>
    /\ UNCHANGED <<queryVars, loaderVars, parked, parserVars, webVars>>

\* time.sleep(retry_delay * 2 ** attempt): the clock is that many seconds
\* further when the sleep returns, then the loop goes on
Sleep ==
    /\ step = "Sleep"
    /\ events' = Append(events, SleepEvent(Backoff(config.retry_delay, attempt)))
    /\ now' = now + Backoff(config.retry_delay, attempt)
    /\ NextAttempt(attempt + 1, last_error)
    /\ UNCHANGED <<config, requests_version, last_error>>
    /\ UNCHANGED <<models, provider, pc, query, start_time, llm_reply,
                   selection, calls, outcome>>
    /\ UNCHANGED <<loaderVars, parked, parserVars, webVars>>

GatewayNext ==
    \/ TestConnection
    \/ GeminiTestConnection
    \/ GeminiGenerateEnds
    \/ AttemptSucceeds
    \/ AttemptFails
    \/ AttemptEscapes
    \/ Sleep

GatewaySpec == GatewayInit /\ [][GatewayNext]_vars

\* ------------------------------------------------------------------------
\* C12 - C15: the retry loop, generate_response and test_connection
\* ------------------------------------------------------------------------

\* the call of the HTTP provider is over
RequestDone == step = "Done" /\ provider = "openai"

\* the POSTs and the sleeps of the call, in order
Posts ==
    LET isPost(event) == event.ev = "post"
    IN  SelectSeq(events, isPost)

Sleeps ==
    LET isSleep(event) == event.ev = "sleep"
    IN  SelectSeq(events, isSleep)

\* the attempt at position i of events failed at transport level: the loop
\* caught its exception
FailedAt(i) ==
    /\ events[i].ev = "post"
    /\ events[i].outcome.kind = "raise"
    /\ IsRequestException(events[i].outcome.exc, requests_version)

\* the last attempt of the call succeeded
LastSucceeded ==
    /\ events # <<>>
    /\ events[Len(events)].ev = "post"
    /\ events[Len(events)].outcome.kind = "return"

\* every sleep has an attempt right before it, and an attempt right after
\* it or still to come
SleepsBetweenAttempts ==
    \A i \in 1..Len(events) :
        events[i].ev = "sleep"
            => /\ i > 1 /\ events[i - 1].ev = "post"
               /\ IF i < Len(events) THEN events[i + 1].ev = "post"
                                     ELSE step = "Post"

\* C12: when the first k attempts of _make_request fail at transport level
\* and attempt k+1 succeeds, k+1 attempts are made, the result of the last
\* one is returned, k sleeps occur, the i-th of them lasts
\* retry_delay * 2^(i-1), and a sleep only occurs between two attempts.
C12_RetryThenSucceed ==
    /\ SleepsBetweenAttempts
    /\ (RequestDone /\ LastSucceeded)
        => LET k == Len(Posts) - 1
           IN  /\ k < config.max_retries
               /\ \A i \in 1..k : FailedAt(2 * i - 1)
               /\ \A i \in 1..(k + 1) : Posts[i].attempt = i - 1
               /\ result = Posts[k + 1].outcome
               /\ Len(Sleeps) = k
               /\ \A i \in 1..k :
                     Sleeps[i].secs = config.retry_delay * Pow2(i - 1)

\* two failed attempts, each followed by its sleep, then a success
C12_Witness ==
    /\ RequestDone
    /\ LastSucceeded
    /\ Len(Posts) = 3
    /\ config.retry_delay = 1
    /\ Sleeps = <<SleepEvent(1), SleepEvent(2)>>

\* every attempt of the call failed at transport level
AllFailed ==
    /\ RequestDone
    /\ \A i \in 1..Len(events) : events[i].ev = "post" => FailedAt(i)

\* C13: when every attempt fails at transport level, exactly max_retries
\* attempts are made, no sleep follows the last one, and the call fails
\* with the RuntimeError that carries the error of the last attempt.
C13_Exhausted ==
    AllFailed
        => /\ Len(Posts) = config.max_retries
           /\ events # <<>> => events[Len(events)].ev = "post"
           /\ Len(Sleeps) = IF Posts = <<>> THEN 0 ELSE Len(Posts) - 1
           /\ result.kind = "raise"
           /\ result.exc.type = "RuntimeError"
           /\ response = result
           /\ Posts # <<>>
                 => EndsWith(result.exc.msg,
                             Posts[Len(Posts)].outcome.exc.msg)

\* three attempts that failed, the last one on a timeout
C13_Witness ==
    /\ AllFailed
    /\ Len(Posts) = 3
    /\ Posts[3].outcome = Raise(Timeout)
    /\ Posts[1].outcome = Raise(ConnectionError)

\* the try block of an attempt ended on a 2xx response that is no valid
\* answer: its body is no JSON, or has no choices[0].message.content
InvalidResponse(tried) ==
    IF tried.kind = "raise" THEN tried.exc.type = "JSONDecodeError"
    ELSE extract_content(tried.value).kind = "raise"

\* C14: a 2xx response that is semantically invalid is never retried: it is
\* the last attempt of the call, and generate_response raises for it at once
\* instead of the error of exhausted retries.
C14_InvalidNotRetried ==
    \A i \in 1..Len(events) :
        (provider = "openai" /\ events[i].ev = "post"
            /\ InvalidResponse(events[i].outcome))
            => /\ i = Len(events)
               /\ step = "Done"
               /\ response.kind = "raise"
               /\ response.exc.type # "RuntimeError"

\* text contains the token ok in any letter case: an o or O followed by a
\* k, a K or the Kelvin sign U+212A, the third character whose lowercase is k
HasOk(text) ==
    \E i \in 1..(Len(text) - 1) :
        text[i] \in {"o", "O"} /\ text[i + 1] \in {"k", "K", "U+212A"}

\* generate_response ended on a text, on None or on an exception
TextNoneOrRaise(reply) ==
    \/ reply.kind = "raise"
    \/ reply.value = NoneVal
    \/ IsText(reply.value)

\* C15 as stated: test_connection never raises: however generate_response
\* ended (a text, None, any exception) it returns a boolean, which is true
\* exactly when the reply is a text that contains "ok" in any letter case.
C15_Original ==
    (step = "Done" /\ TextNoneOrRaise(response))
        => /\ connected.kind = "return"
           /\ connected.value \in BOOLEAN
           /\ connected.value
                 <=> /\ response.kind = "return"
                     /\ response.value # NoneVal
                     /\ HasOk(response.value)

\* C15 as amended: however generate_response ended (a text, None, an
\* exception that derives from Exception), test_connection returns a
\* boolean, which is true exactly when the reply is a text that contains
\* "ok" in any letter case; an exception of generate_response that does not
\* derive from Exception (KeyboardInterrupt, SystemExit) leaves
\* test_connection as it is.
C15_Amended ==
    (step = "Done" /\ TextNoneOrRaise(response))
        => IF response.kind = "raise" /\ ~IsException(response.exc)
           THEN connected = response
           ELSE /\ connected.kind = "return"
                /\ connected.value \in BOOLEAN
                /\ connected.value
                      <=> /\ response.kind = "return"
                          /\ response.value # NoneVal
                          /\ HasOk(response.value)

\* a reply with the token in mixed case: the test succeeds
C15_Witness ==
    /\ step = "Done"
    /\ response = Return(<<"I", " ", "a", "m", " ", "o", "K">>)
    /\ connected = Return(TRUE)

\* ------------------------------------------------------------------------
\* ModelParser (src/src/core/model_parser.py): a model file is the list of
\* its lines as readlines() gives them
\* ------------------------------------------------------------------------

\* the position of the first occurrence of sub in s, which contains it
Find(s, sub) ==
    CHOOSE i \in 1..(Len(s) - Len(sub) + 1) :
        /\ SubSeq(s, i, i + Len(sub) - 1) = sub
        /\ \A j \in 1..(i - 1) : SubSeq(s, j, j + Len(sub) - 1) # sub

\* s.split(sub, 1)[1] and s.split(sub, 1)[0]
AfterFirst(s, sub) == SubSeq(s, Find(s, sub) + Len(sub), Len(s))
BeforeFirst(s, sub) == SubSeq(s, 1, Find(s, sub) - 1)

\* the line without its line number and '|' prefix
LineContent(line) ==
    IF Contains(line, <<"|">>) THEN AfterFirst(line, <<"|">>) ELSE line

RECURSIVE JoinLines(_)
\* '\n'.join(parts)
JoinLines(parts) ==
    IF parts = <<>> THEN <<>>
    ELSE IF Len(parts) = 1 THEN parts[1]
    ELSE parts[1] \o <<"\n">> \o JoinLines(Tail(parts))

OpenTag(tag) == <<"<">> \o tag \o <<">">>
CloseTag(tag) == <<"<", "/">> \o tag \o <<">">>

\* content_lines with part appended when part.strip() is not empty
AppendIfText(content_lines, part) ==
    IF Strip(part) # <<>> THEN Append(content_lines, part) ELSE content_lines

RECURSIVE TagLines(_, _, _, _, _)
\* the loop of _extract_tag_content from line i on
TagLines(lines, tag, i, in_tag, content_lines) ==
    IF i > Len(lines) THEN content_lines
    ELSE LET line_content == LineContent(lines[i])
         IN  IF Contains(line_content, OpenTag(tag))
             THEN TagLines(lines, tag, i + 1, TRUE,
                      AppendIfText(content_lines,
                                   AfterFirst(line_content, OpenTag(tag))))
             ELSE IF Contains(line_content, CloseTag(tag))
             THEN AppendIfText(content_lines,
                               BeforeFirst(line_content, CloseTag(tag)))
             ELSE IF in_tag
             THEN TagLines(lines, tag, i + 1, TRUE,
                           Append(content_lines, line_content))
             ELSE TagLines(lines, tag, i + 1, FALSE, content_lines)

\* _extract_tag_content
extract_tag_content(lines, tag) ==
    Strip(JoinLines(TagLines(lines, tag, 1, FALSE, <<>>)))

Example == <<"e", "x", "a", "m", "p", "l", "e">>

RECURSIVE ExampleBlocks_KeepsOpen(_, _, _, _, _)
\* a faulty variant: an example that is still open at the end of the file is
\* added as well
ExampleBlocks_KeepsOpen(lines, i, in_example, current_example, examples) ==
    IF i > Len(lines)
    THEN IF in_example /\ current_example # <<>>
         THEN Append(examples, Strip(JoinLines(current_example)))
         ELSE examples
    ELSE LET line_content == LineContent(lines[i])
         IN  IF Contains(line_content, OpenTag(Example))
             THEN ExampleBlocks_KeepsOpen(lines, i + 1, TRUE,
                      AppendIfText(<<>>, AfterFirst(line_content, OpenTag(Example))),
                      examples)
             ELSE IF Contains(line_content, CloseTag(Example))
             THEN LET closed == AppendIfText(current_example,
                                    BeforeFirst(line_content, CloseTag(Example)))
                  IN  ExampleBlocks_KeepsOpen(lines, i + 1, FALSE, <<>>,
                          IF closed # <<>>
                          THEN Append(examples, Strip(JoinLines(closed)))
                          ELSE examples)
             ELSE IF in_example
             THEN ExampleBlocks_KeepsOpen(lines, i + 1, TRUE,
                                Append(current_example, line_content), examples)
             ELSE ExampleBlocks_KeepsOpen(lines, i + 1, FALSE, current_example,
                                          examples)

RECURSIVE ExampleBlocks(_, _, _, _, _)
\* the loop of _extract_examples from line i on
ExampleBlocks(lines, i, in_example, current_example, examples) ==
    IF i > Len(lines) THEN examples
    ELSE LET line_content == LineContent(lines[i])
         IN  IF Contains(line_content, OpenTag(Example))
             THEN ExampleBlocks(lines, i + 1, TRUE,
                      AppendIfText(<<>>, AfterFirst(line_content, OpenTag(Example))),
                      examples)
             ELSE IF Contains(line_content, CloseTag(Example))
             THEN LET closed == AppendIfText(current_example,
                                    BeforeFirst(line_content, CloseTag(Example)))
                  IN  ExampleBlocks(lines, i + 1, FALSE, <<>>,
                          IF closed # <<>>
                          THEN Append(examples, Strip(JoinLines(closed)))
                          ELSE examples)
             ELSE IF in_example
             THEN ExampleBlocks(lines, i + 1, TRUE,
                                Append(current_example, line_content), examples)
             ELSE ExampleBlocks(lines, i + 1, FALSE, current_example, examples)

\* _extract_examples
extract_examples(lines) == ExampleBlocks(lines, 1, FALSE, <<>>, <<>>)

\* a file of the models directory: its path, whether it can be opened and
\* read ("text"), cannot ("unreadable", with the text of the OSError) or is
\* gone ("missing"), and its lines
ModelFile(path, kind, lines, error) ==
    [path |-> path, kind |-> kind, lines |-> lines, error |-> error]

\* _parse_model_file: every exception becomes a ValueError
parse_model_file(file) ==
    IF file.kind # "text"
    THEN Raise(Exc("ValueError",
             <<"F", "a", "i", "l", "e", "d", " ", "t", "o", " ", "p", "a", "r",
       "s", "e", " ">> \o file.path \o <<":", " ">> \o file.error))
    ELSE Return([id |-> extract_tag_content(file.lines, <<"i", "d">>),
                 type |-> extract_tag_content(file.lines, <<"t", "y", "p", "e">>),
                 field |-> extract_tag_content(file.lines, <<"f", "i", "e", "l", "d">>),
                 definition |-> extract_tag_content(file.lines, <<"d", "e", "f", "i", "n", "e">>),
                 examples |-> extract_examples(file.lines)])

\* ValueError of _validate_model_data
MissingField(name, path) ==
    Exc("ValueError", <<"M", "i", "s", "s", "i", "n", "g", " ", "o", "r", " ", "e", "m",
       "p", "t", "y", " ", "r", "e", "q", "u", "i", "r", "e", "d", " ",
       "f", "i", "e", "l", "d", " ", "'">> \o name
                          \o <<"'", " ", "i", "n", " ">> \o path)

\* a faulty variant: the parsed data is not validated before the model is
\* constructed
validate_model_data_Skipped(data, path) == Return(NoneVal)

\* _validate_model_data: the first required field that is empty, if any
validate_model_data(data, path) ==
    IF data.id = <<>> THEN Raise(MissingField(<<"i", "d">>, path))
    ELSE IF data.type = <<>> THEN Raise(MissingField(<<"t", "y", "p", "e">>, path))
    ELSE IF data.field = <<>> THEN Raise(MissingField(<<"f", "i", "e", "l", "d">>, path))
    ELSE IF data.definition = <<>>
    THEN Raise(MissingField(<<"d", "e", "f", "i", "n", "i", "t", "i", "o", "n">>, path))
    ELSE Return(NoneVal)

ModelTypes == { <<"s", "o", "l", "v", "e">>, <<"e", "x", "p", "l", "a", "i", "n">> }

\* a faulty variant: the type of a model is not checked
post_init_AnyType(model) ==
    IF model.id = <<>> THEN Raise(Exc("ValueError", <<"M", "o", "d", "e", "l", " ", "I", "D", " ", "i", "s", " ", "r",
       "e", "q", "u", "i", "r", "e", "d">>))
    ELSE IF model.type = <<>>
    THEN Raise(Exc("ValueError", <<"M", "o", "d", "e", "l", " ", "t", "y", "p", "e", " ", "i", "s",
       " ", "r", "e", "q", "u", "i", "r", "e", "d">>))
    ELSE IF model.field = <<>>
    THEN Raise(Exc("ValueError", <<"M", "o", "d", "e", "l", " ", "f", "i", "e", "l", "d", " ", "i",
       "s", " ", "r", "e", "q", "u", "i", "r", "e", "d">>))
    ELSE IF model.definition = <<>>
    THEN Raise(Exc("ValueError", <<"M", "o", "d", "e", "l", " ", "d", "e", "f", "i", "n", "i", "t",
       "i", "o", "n", " ", "i", "s", " ", "r", "e", "q", "u", "i", "r",
       "e", "d">>))
    ELSE Return(model)

\* ThinkingModel.__post_init__
post_init(model) ==
    IF model.id = <<>> THEN Raise(Exc("ValueError", <<"M", "o", "d", "e", "l", " ", "I", "D", " ", "i", "s", " ", "r",
       "e", "q", "u", "i", "r", "e", "d">>))
    ELSE IF model.type = <<>>
    THEN Raise(Exc("ValueError", <<"M", "o", "d", "e", "l", " ", "t", "y", "p", "e", " ", "i", "s",
       " ", "r", "e", "q", "u", "i", "r", "e", "d">>))
    ELSE IF model.field = <<>>
    THEN Raise(Exc("ValueError", <<"M", "o", "d", "e", "l", " ", "f", "i", "e", "l", "d", " ", "i",
       "s", " ", "r", "e", "q", "u", "i", "r", "e", "d">>))
    ELSE IF model.definition = <<>>
    THEN Raise(Exc("ValueError", <<"M", "o", "d", "e", "l", " ", "d", "e", "f", "i", "n", "i", "t",
       "i", "o", "n", " ", "i", "s", " ", "r", "e", "q", "u", "i", "r",
       "e", "d">>))
    ELSE IF model.type \notin ModelTypes
    THEN Raise(Exc("ValueError", <<"M", "o", "d", "e", "l", " ", "t", "y", "p", "e", " ", "m", "u",
       "s", "t", " ", "b", "e", " ", "'", "s", "o", "l", "v", "e", "'",
       " ", "o", "r", " ", "'", "e", "x", "p", "l", "a", "i", "n", "'">>))
    ELSE Return(model)

\* load_single_model
load_single_model(file) ==
    IF file.kind = "missing"
    THEN Raise(Exc("ValueError", <<"M", "o", "d", "e", "l", " ", "f", "i", "l", "e", " ", "n", "o",
       "t", " ", "f", "o", "u", "n", "d", ":", " ">> \o file.path))
    ELSE LET data == parse_model_file(file)
         IN  IF data.kind = "raise" THEN data
             ELSE IF validate_model_data(data.value, file.path).kind = "raise"
             THEN validate_model_data(data.value, file.path)
             ELSE post_init(data.value)

\* ------------------------------------------------------------------------
\* The models directory and load_all_models
\* ------------------------------------------------------------------------

\* most .txt files the models directory holds
MaxFiles == 3

\* a tag that opens on a line of its own, its text, and the closing tag
Block(tag, text) ==
    << OpenTag(tag) \o <<"\n">>, text \o <<"\n">>, CloseTag(tag) \o <<"\n">> >>

\* the file of the model a: solve, universal, one example
FileA ==
    ModelFile(<<"m", "o", "d", "e", "l", "s", "/", "a", ".", "t", "x", "t">>, "text",
        Block(<<"i", "d">>, IdA) \o Block(<<"t", "y", "p", "e">>, <<"s", "o", "l", "v", "e">>)
            \o Block(<<"f", "i", "e", "l", "d">>, <<"*">>) \o Block(<<"d", "e", "f", "i", "n", "e">>, <<"d", "1">>)
            \o Block(Example, <<"e", "1">>),
        <<>>)

\* the file of the model b, with line numbers, tags sharing a line with text
FileB ==
    ModelFile(<<"m", "o", "d", "e", "l", "s", "/", "b", ".", "t", "x", "t">>, "text",
        << <<"1", "|", "<", "i", "d", ">", "\n">>, <<"2", "|", "b", "\n">>, <<"3", "|", "<", "/", "i", "d", ">", "\n">>, <<"4", "|", "<", "t", "y", "p", "e", ">", "e", "x", "p", "l", "a",
       "i", "n", "\n">>,
           <<"5", "|", "<", "/", "t", "y", "p", "e", ">", "\n">>, <<"6", "|", "<", "f", "i", "e", "l", "d", ">", "x", "\n">>, <<"7", "|", "<", "/", "f", "i", "e", "l", "d", ">", "\n">>,
           <<"8", "|", "<", "d", "e", "f", "i", "n", "e", ">", "\n">>, <<"9", "|", "d", "2", "<", "/", "d", "e", "f", "i", "n", "e", ">",
       "\n">> >>,
        <<>>)

\* a second file with the id a
FileA2 ==
    ModelFile(<<"m", "o", "d", "e", "l", "s", "/", "a", "2", ".", "t", "x", "t">>, "text",
        Block(<<"i", "d">>, IdA) \o Block(<<"t", "y", "p", "e">>, <<"e", "x", "p", "l", "a", "i", "n">>)
            \o Block(<<"f", "i", "e", "l", "d">>, <<"*">>) \o Block(<<"d", "e", "f", "i", "n", "e">>, <<"d", "3">>),
        <<>>)

\* a file without the <id> tag
FileNoId ==
    ModelFile(<<"m", "o", "d", "e", "l", "s", "/", "n", ".", "t", "x", "t">>, "text",
        Block(<<"t", "y", "p", "e">>, <<"s", "o", "l", "v", "e">>) \o Block(<<"f", "i", "e", "l", "d">>, <<"*">>)
            \o Block(<<"d", "e", "f", "i", "n", "e">>, <<"d", "1">>),
        <<>>)

\* a file whose type is neither solve nor explain
FileBadType ==
    ModelFile(<<"m", "o", "d", "e", "l", "s", "/", "t", ".", "t", "x", "t">>, "text",
        Block(<<"i", "d">>, <<"c">>) \o Block(<<"t", "y", "p", "e">>, <<"g", "u", "e", "s", "s">>)
            \o Block(<<"f", "i", "e", "l", "d">>, <<"*">>) \o Block(<<"d", "e", "f", "i", "n", "e">>, <<"d", "4">>),
        <<>>)

\* a directory entry named u.txt that open() refuses
FileUnreadable ==
    ModelFile(<<"m", "o", "d", "e", "l", "s", "/", "u", ".", "t", "x", "t">>, "unreadable", <<>>,
              <<"[", "E", "r", "r", "n", "o", " ", "2", "1", "]", " ", "I", "s",
       " ", "a", " ", "d", "i", "r", "e", "c", "t", "o", "r", "y", ":",
       " ", "'", "m", "o", "d", "e", "l", "s", "/", "u", ".", "t", "x",
       "t", "'">>)

ModelFiles == {FileA, FileB, FileA2, FileNoId, FileBadType, FileUnreadable}

\* what glob('*.txt') lists: some of the files, each once, in any order
Directories ==
    { files \in SeqsUpTo(ModelFiles, MaxFiles) :
        \A i, j \in 1..Len(files) : files[i] = files[j] => i = j }

\* a faulty variant: no ID counts as present
HasId_Never(index, id) == FALSE

\* a faulty variant: the IDs of the index as it was before clear() count as
\* present too
HasId_Stale(index, id) ==
    \/ \E n \in 1..Len(index) : index[n].id = id
    \/ \E n \in 1..Len(previous) : previous[n].id = id

\* model.id in self.models
HasId(index, id) == \E n \in 1..Len(index) : index[n].id = id

\* self.models[model.id] = model: a new key goes last, a key that is
\* present keeps its place and gets the new value
PutModel(index, model) ==
    IF \E n \in 1..Len(index) : index[n].id = model.id
    THEN [n \in 1..Len(index) |->
             IF index[n].id = model.id THEN model ELSE index[n]]
    ELSE Append(index, model)

\* the log entry of a file that is not indexed
Failure(file, why) == [path |-> file.path, why |-> why]

\* how load_single_model ends on each file of the directory
LoadOf == [file \in ModelFiles |-> load_single_model(file)]

\* a ModelParser with an index loaded, and the models directory as it is
\* when load_all_models is called again
LoaderInit ==
    /\ models \in Indexes
    /\ provider = "stub"
    /\ pc = "Start"
    /\ query = <<>>
    /\ start_time = 0
    /\ now = 0
    /\ llm_reply = Pending
    /\ selection = Pending
    /\ calls = <<>>
    /\ outcome = Pending
    /\ GatewayIdle
    /\ directory \in Directories
    /\ loading = "Idle"
    /\ next_file = 1
    /\ previous = models
    /\ failures = <<>>
    /\ reader = NoReader
    /\ parked = NoCall
    /\ ParserIdle
    /\ WebIdle

\* the loop of load_all_models moves on to the next file, or is over and
\* the call returns self.models
NextFile ==
    /\ next_file' = next_file + 1
    /\ loading' = IF next_file < Len(directory) THEN loading
                  ELSE IF loading = "Scanning" THEN "Loaded" ELSE "Reloaded"

\* load_all_models is called: self.models.clear(), then the glob
ReloadStarts ==
    /\ loading \in {"Idle", "Loaded", "Reloaded"}
    /\ previous' = models
    /\ models' = <<>>
    /\ failures' = <<>>
    /\ next_file' = 1
    /\ loading' = IF loading = "Idle"
                  THEN IF directory = <<>> THEN "Loaded" ELSE "Scanning"
                  ELSE IF directory = <<>> THEN "Reloaded" ELSE "Rescanning"
    /\ UNCHANGED <<provider, pc, query, start_time, now, llm_reply,
                   selection, calls, outcome, directory, reader>>
    /\ UNCHANGED <<gatewayVars, parked, parserVars, webVars>>

\* the next file loads and its ID is new: the model is indexed
FileLoads ==
    /\ loading \in {"Scanning", "Rescanning"}
    /\ LoadOf[directory[next_file]].kind = "return"
    /\ ~HasId(models, LoadOf[directory[next_file]].value.id)
    /\ models' = PutModel(models, LoadOf[directory[next_file]].value)
    /\ NextFile
    /\ UNCHANGED <<provider, pc, query, start_time, now, llm_reply,
                   selection, calls, outcome, directory, previous, failures,
                   reader>>
    /\ UNCHANGED <<gatewayVars, parked, parserVars, webVars>>

\* the next file loads but its ID is in the index: it is logged and skipped
FileIsDuplicate ==
    /\ loading \in {"Scanning", "Rescanning"}
    /\ LoadOf[directory[next_file]].kind = "return"
    /\ HasId(models, LoadOf[directory[next_file]].value.id)
    /\ failures' = Append(failures,
                          Failure(directory[next_file], Exc("Duplicate", <<>>)))
    /\ NextFile
    /\ UNCHANGED <<queryVars, gatewayVars, parked, parserVars, webVars,
                   directory, previous, reader>>

\* the next file does not load: the exception is logged, the loop goes on
FileFails ==
    /\ loading \in {"Scanning", "Rescanning"}
    /\ LoadOf[directory[next_file]].kind = "raise"
    /\ failures' = Append(failures,
           Failure(directory[next_file],
                   LoadOf[directory[next_file]].exc))
    /\ NextFile
    /\ UNCHANGED <<queryVars, gatewayVars, parked, parserVars, webVars,
                   directory, previous, reader>>

LoaderNext ==
    \/ ReloadStarts
    \/ FileLoads
    \/ FileIsDuplicate
    \/ FileFails

LoaderSpec == LoaderInit /\ [][LoaderNext]_vars

\* ------------------------------------------------------------------------
\* process_query while load_all_models runs in another thread
\* (src/src/core/query_processor.py, src/src/core/model_parser.py)
\* ------------------------------------------------------------------------

\* the files of the directories a query runs beside a load of
ReloadFiles == {FileA, FileB, FileA2, FileNoId}

\* the QueryProcessor with its index loaded, the models directory changed
\* since, and a query to come while load_all_models is called again
ReloadInit ==
    /\ models \in Indexes
    /\ provider = "stub"
    /\ pc = "Start"
    /\ query = <<>>
    /\ start_time = 0
    /\ now = 0
    /\ llm_reply = Pending
    /\ selection = Pending
    /\ calls = <<>>
    /\ outcome = Pending
    /\ GatewayIdle
    /\ directory \in {files \in Directories :
                         \A i \in 1..Len(files) : files[i] \in ReloadFiles}
    /\ loading = "Idle"
    /\ next_file = 1
    /\ previous = models
    /\ failures = <<>>
    /\ reader = NoReader
    /\ parked = NoCall
    /\ ParserIdle
    /\ WebIdle

\* process_query(q) is called: it reads the clock, and the list
\* comprehension of phase_1_model_selection starts to iterate over the index
QueryReadsIndex ==
    /\ pc = "Start"
    /\ \E q \in Queries : query' = q
    /\ start_time' = now
    /\ reader' = NewReader(models)
    /\ pc' = "ReadIndex"
    /\ UNCHANGED <<models, provider, now, llm_reply, selection, calls, outcome>>
    /\ UNCHANGED <<directory, loading, next_file, previous, failures>>
    /\ UNCHANGED <<gatewayVars, parked, parserVars, webVars>>

\* next() of the iterator, of phase_1_model_selection or of
\* fetch_model_data, gives the entry at its position
ReadsModel ==
    /\ pc \in {"ReadIndex", "FetchData"}
    /\ Len(models) = reader.used
    /\ reader.pos < Len(models)
    /\ reader' = [reader EXCEPT !.pos = @ + 1,
                                !.items = Append(@, models[reader.pos + 1])]
    /\ UNCHANGED <<queryVars, gatewayVars, parked, parserVars, webVars>>
    /\ UNCHANGED <<directory, loading, next_file, previous, failures>>

\* next() of the iterator finds that the dict has another number of entries
\* and raises: the except clause returns the error result, and no gateway
\* call follows
IndexChanged ==
    /\ pc \in {"ReadIndex", "FetchData"}
    /\ Len(models) # reader.used
    /\ reader' = [reader EXCEPT !.raised = TRUE]
    /\ outcome' = OnException(query, DictChanged, start_time, now)
    /\ pc' = "Done"
    /\ UNCHANGED <<models, provider, query, start_time, now, llm_reply,
                   selection, calls>>
    /\ UNCHANGED <<directory, loading, next_file, previous, failures>>
    /\ UNCHANGED <<gatewayVars, parked, parserVars, webVars>>

\* the iteration of phase_1_model_selection is over:
\* request_model_selection is called with the models it read
PhaseOneEnds ==
    /\ pc = "ReadIndex"
    /\ Len(models) = reader.used
    /\ reader.pos = Len(models)
    /\ calls' = <<SelectionCall(query, reader.items)>>
    /\ pc' = "SelectModels"
    /\ UNCHANGED <<models, provider, query, start_time, now, llm_reply,
                   selection, outcome>>
    /\ UNCHANGED <<loaderVars, gatewayVars, parked, parserVars, webVars>>

\* how the gateway ends the selection call of a query that runs beside a
\* load
ReloadSelectionOutcomes ==
    { Return(<<>>), Return(<<IdA>>), Return(<<IdB, IdA>>),
      Raise(Exc("RuntimeError", <<"b", "o", "o", "m">>)) }

\* the gateway ends the selection call
ReloadSelects ==
    /\ pc = "SelectModels"
    /\ UNCHANGED <<gatewayVars, loaderVars, parked, parserVars, webVars>>
    /\ \E how \in ReloadSelectionOutcomes :
        /\ selection' = how
        /\ calls' = Append(calls, CallEnd("request_model_selection", how))
        /\ pc' = "Selected"
        /\ UNCHANGED <<models, provider, query, start_time, now, llm_reply,
                       outcome>>

\* models selected: the list comprehension of fetch_model_data starts to
\* iterate over the index
FetchStarts ==
    /\ pc = "Selected"
    /\ selection.kind = "return"
    /\ selection.value # <<>>
    /\ reader' = NewReader(models)
    /\ pc' = "FetchData"
    /\ UNCHANGED <<models, provider, query, start_time, now, llm_reply,
                   selection, calls, outcome>>
    /\ UNCHANGED <<gatewayVars, parked, parserVars, webVars>>
    /\ UNCHANGED <<directory, loading, next_file, previous, failures>>

\* the iteration of fetch_model_data is over: none of the models it read is
\* a selected one and the not-found result is returned, or request_solution
\* is called with the records of those that are
FetchEnds ==
    /\ pc = "FetchData"
    /\ Len(models) = reader.used
    /\ reader.pos = Len(models)
    /\ IF fetch_model_data(reader.items, selection.value) = <<>>
       THEN /\ outcome' = Return(NotFoundResult(query, selection.value,
                                                start_time, now))
            /\ pc' = "Done"
            /\ UNCHANGED calls
       ELSE /\ calls' = Append(calls,
                   SolutionCall(query,
                       fetch_model_data(reader.items, selection.value)))
            /\ pc' = "ProposeSolution"
            /\ UNCHANGED outcome
    /\ UNCHANGED <<models, provider, query, start_time, now, llm_reply,
                   selection>>
    /\ UNCHANGED <<loaderVars, gatewayVars, parked, parserVars, webVars>>

ReloadNext ==
    \/ ReloadStarts
    \/ FileLoads
    \/ FileIsDuplicate
    \/ FileFails
    \/ QueryReadsIndex
    \/ ReadsModel
    \/ IndexChanged
    \/ PhaseOneEnds
    \/ ReloadSelects
    \/ SelectionRaised
    \/ NoneSelected
    \/ FetchStarts
    \/ FetchEnds
    \/ DirectReturns
    \/ DirectRaises
    \/ SolutionReturns
    \/ SolutionRaises

ReloadSpec == ReloadInit /\ [][ReloadNext]_vars

\* ------------------------------------------------------------------------
\* C17 - C19: load_all_models
\* ------------------------------------------------------------------------

\* the files that parse and validate, and the model each of them holds
GoodFiles == {FileA, FileB, FileA2}

\* the files that are unreadable, lack <id>, or have an invalid type
BrokenFiles == {FileNoId, FileBadType, FileUnreadable}

ModelOf(file) ==
    IF file = FileA
    THEN [id |-> IdA, type |-> <<"s", "o", "l", "v", "e">>, field |-> <<"*">>,
          definition |-> <<"d", "1">>, examples |-> << <<"e", "1">> >>]
    ELSE IF file = FileB
    THEN [id |-> IdB, type |-> <<"e", "x", "p", "l", "a", "i", "n">>,
          field |-> <<"x">>, definition |-> <<"d", "2">>, examples |-> <<>>]
    ELSE [id |-> IdA, type |-> <<"e", "x", "p", "l", "a", "i", "n">>,
          field |-> <<"*">>, definition |-> <<"d", "3">>, examples |-> <<>>]

\* the file at position i is good and the first good one with its ID
FirstWithId(i) ==
    /\ directory[i] \in GoodFiles
    /\ \A j \in 1..(i - 1) :
          directory[j] \in GoodFiles
              => ModelOf(directory[j]).id # ModelOf(directory[i]).id

\* the load_all_models call returned
LoadReturned == loading \in {"Loaded", "Reloaded"}

\* the entries of the log about the file
FailuresOf(file) == {k \in 1..Len(failures) : failures[k].path = file.path}

\* C17: load_all_models never raises and isolates the failure of a file:
\* the index it returns holds the model of every file that parses and
\* validates (the first one for each ID), and nothing of a file that is
\* unreadable, lacks <id> or has an invalid type; such a file is logged once
\* and its siblings still load.
C17_IsolatesFailures ==
    LoadReturned
        => /\ \A i \in 1..Len(directory) :
                 FirstWithId(i)
                     => \E n \in 1..Len(models) :
                            models[n] = ModelOf(directory[i])
           /\ \A n \in 1..Len(models) :
                 \E i \in 1..Len(directory) :
                     /\ directory[i] \in GoodFiles
                     /\ models[n] = ModelOf(directory[i])
           /\ \A i \in 1..Len(directory) :
                 directory[i] \in BrokenFiles
                     => Cardinality(FailuresOf(directory[i])) = 1

\* a file without <id> and a file with an invalid type around a valid one
C17_Witness ==
    /\ LoadReturned
    /\ directory = <<FileNoId, FileA, FileBadType>>
    /\ models = <<ModelOf(FileA)>>
    /\ Len(failures) = 2

\* C18: when several files carry the same <id>, the returned index has one
\* entry for that ID, the model of the first of them that loaded; a later
\* one never overwrites it.
C18_FirstWins ==
    LoadReturned
        => \A i \in 1..Len(directory) :
              FirstWithId(i)
                  => /\ Cardinality({n \in 1..Len(models) :
                            models[n].id = ModelOf(directory[i]).id}) = 1
                     /\ \A n \in 1..Len(models) :
                            models[n].id = ModelOf(directory[i]).id
                                => models[n] = ModelOf(directory[i])

\* the second file with the id a comes first: its model is the one indexed
C18_Witness ==
    /\ LoadReturned
    /\ directory = <<FileA2, FileB, FileA>>
    /\ models = <<ModelOf(FileA2), ModelOf(FileB)>>
    /\ failures = <<Failure(FileA, Exc("Duplicate", <<>>))>>

\* the complete index a load of the directory builds
CompleteIndex ==
    LET positions == [i \in 1..Len(directory) |-> i]
        firsts == SelectSeq(positions, FirstWithId)
    IN  [n \in 1..Len(firsts) |-> ModelOf(directory[firsts[n]])]

\* C19: a reload is an atomic swap: when process_query reads
\* ModelParser.models while load_all_models runs, it finds the complete
\* index of before the reload or the complete new one, never an empty or
\* partly filled one.
C19_AtomicSwap ==
    [][(pc = "ReadIndex" /\ pc' = "SelectModels")
          => (reader.items = previous \/ reader.items = CompleteIndex)]_vars

\* ------------------------------------------------------------------------
\* Two process_query calls on one QueryProcessor, interleaved
\* (src/src/core/query_processor.py, src/src/web/app.py)
\* ------------------------------------------------------------------------

\* the local variables of the process_query call that is running
Frame ==
    [pc |-> pc, query |-> query, start_time |-> start_time,
     llm_reply |-> llm_reply, selection |-> selection, calls |-> calls,
     outcome |-> outcome]

\* a process_query call that has not started
NewCall ==
    [pc |-> "Start", query |-> <<>>, start_time |-> 0, llm_reply |-> Pending,
     selection |-> Pending, calls |-> <<>>, outcome |-> Pending]

\* a faulty variant: the query is kept on the QueryProcessor, where the
\* other call overwrites it
Resume_SharedQuery(frame) == [frame EXCEPT !.query = query]

\* what a call finds when it runs again: query, start_time, selected_models
\* and the rest are locals of process_query, so it finds its own
Resume(frame) == frame

\* how the gateway ends the selection call of either query
InterleavedSelectionOutcomes ==
    { Return(<<>>), Return(<<IdA>>), Return(<<IdZ>>), Return(<<IdB, IdA>>),
      Raise(Exc("RuntimeError", <<"b", "o", "o", "m">>)) }

\* the QueryProcessor of the web application with its index loaded, and two
\* process_query calls to come: a reload is not in flight
InterleavedInit ==
    /\ models \in Indexes
    /\ provider = "stub"
    /\ pc = "Start"
    /\ query = <<>>
    /\ start_time = 0
    /\ now = 0
    /\ llm_reply = Pending
    /\ selection = Pending
    /\ calls = <<>>
    /\ outcome = Pending
    /\ GatewayIdle
    /\ directory = <<>>
    /\ loading = "Loaded"
    /\ next_file = 1
    /\ previous = models
    /\ failures = <<>>
    /\ reader = NoReader
    /\ parked = NewCall
    /\ ParserIdle
    /\ WebIdle

\* the gateway ends the selection call of the running query
GatewaySelects ==
    /\ pc = "SelectModels"
    /\ UNCHANGED <<gatewayVars, loaderVars, parked, parserVars, webVars>>
    /\ \E how \in InterleavedSelectionOutcomes, d \in 0..MaxLatency :
        /\ now' = now + d
        /\ selection' = how
        /\ calls' = Append(calls, CallEnd("request_model_selection", how))
        /\ pc' = "Selected"
        /\ UNCHANGED <<models, provider, query, start_time, llm_reply, outcome>>

\* the running call is suspended and the other one runs on
Switch ==
    /\ parked # NoCall
    /\ pc' = Resume(parked).pc
    /\ query' = Resume(parked).query
    /\ start_time' = Resume(parked).start_time
    /\ llm_reply' = Resume(parked).llm_reply
    /\ selection' = Resume(parked).selection
    /\ calls' = Resume(parked).calls
    /\ outcome' = Resume(parked).outcome
    /\ parked' = Frame
    /\ UNCHANGED <<models, provider, now, gatewayVars, loaderVars, parserVars, webVars>>

InterleavedNext ==
    \/ StartQuery
    \/ GatewaySelects
    \/ SelectionRaised
    \/ NoneSelected
    \/ RecordsNotFound
    \/ RecordsFound
    \/ DirectReturns
    \/ DirectRaises
    \/ SolutionReturns
    \/ SolutionRaises
    \/ Switch

InterleavedSpec == InterleavedInit /\ [][InterleavedNext]_vars

\* ------------------------------------------------------------------------
\* C20
\* ------------------------------------------------------------------------

\* how the gateway calls logged in log ended, in order
Responses(log) ==
    LET isEnd(event) == event.ev = "end"
        ends == SelectSeq(log, isEnd)
    IN  [i \in 1..Len(ends) |-> ends[i].outcome]

\* how process_query(q) ends when it runs alone on index and the gateway
\* ends its calls as replies tells, the clock standing still
RunAlone(q, index, replies) ==
    LET selected == replies[1]
        data == fetch_model_data(index, selected.value)
        second == replies[2]
    IN  IF selected.kind = "raise"
        THEN OnException(q, selected.exc, 0, 0)
        ELSE CASE Branch(selected.value, data) = "RecordsNotFound" ->
                    Return(NotFoundResult(q, selected.value, 0, 0))
               [] Branch(selected.value, data) = "DirectFallback" ->
                    IF second.kind = "raise"
                    THEN OnException(q, second.exc, 0, 0)
                    ELSE OnDirectReturn(q, second.value, 0, 0)
               [] Branch(selected.value, data) = "ProposeSolution" ->
                    IF second.kind = "raise"
                    THEN OnException(q, second.exc, 0, 0)
                    ELSE Return(SuccessResult(q, selected.value,
                                              second.value, 0, 0))

\* the calls process_query(q) makes when it runs alone on index and the
\* gateway ends them as replies tells
CallsAlone(q, index, replies) ==
    LET selected == replies[1]
        data == fetch_model_data(index, selected.value)
        first == <<SelectionCall(q, index)>>
    IN  IF selected.kind = "raise" THEN first
        ELSE CASE Branch(selected.value, data) = "RecordsNotFound" -> first
               [] Branch(selected.value, data) = "DirectFallback" ->
                    Append(first, DirectCall(q))
               [] Branch(selected.value, data) = "ProposeSolution" ->
                    Append(first, SolutionCall(q, data))

\* a result without the time it took; an exception as it is
Untimed(how) ==
    IF how.kind = "return" THEN [how EXCEPT !.value.processing_time = 0]
    ELSE how

\* the calls of log that are calls, in order
CallsOf(log) ==
    LET isCall(event) == event.ev = "call"
    IN  SelectSeq(log, isCall)

\* the finished call ended as it would have alone: the same gateway calls,
\* the same result, and a time that is the clock's since its own start
AsAlone(frame) ==
    /\ frame.outcome.kind = "return" <=> frame.pc = "Done"
    /\ frame.query \in Queries
    /\ Untimed(frame.outcome)
          = RunAlone(frame.query, previous, Responses(frame.calls))
    /\ CallsOf(frame.calls)
          = CallsAlone(frame.query, previous, Responses(frame.calls))
    /\ frame.pc = "Done"
          => frame.outcome.value.processing_time \in 0..(now - frame.start_time)

\* C20: process_query calls that are interleaved on one QueryProcessor, with
\* no reload in flight, leave the index and its ThinkingModels as they were,
\* and each call that has finished made the gateway calls and returned the
\* result (query, selected_models, solution, error) it makes and returns
\* when it runs alone with the same gateway responses, or let the exception
\* escape that escapes it then
C20_QueriesIsolated ==
    /\ models = previous
    /\ pc \in {"Done", "Raised"} => AsAlone(Frame)
    /\ parked.pc \in {"Done", "Raised"} => AsAlone(parked)

\* both calls have finished, with different queries, and each started
\* before the other returned; one had models selected and solved with them,
\* the other fell back to the direct answer
C20_Witness ==
    /\ pc = "Done"
    /\ parked.pc = "Done"
    /\ query # parked.query
    /\ Len(calls) = 4
    /\ Len(parked.calls) = 4
    /\ calls[3].op = "request_solution"
    /\ parked.calls[3].op = "generate_response"
    /\ outcome.value.error = NoneVal
    /\ outcome.value.selected_models = <<IdB, IdA>>
    /\ outcome.value.processing_time > 0
    /\ parked.outcome.value.processing_time > 0
    /\ start_time < parked.start_time
    /\ parked.start_time < start_time + outcome.value.processing_time

\* ------------------------------------------------------------------------
\* C21
\* ------------------------------------------------------------------------

\* the required field of the parsed data that is empty, first in the order
\* of the check, or <<>> when none is
EmptyRequired(data) ==
    IF data.id = <<>> THEN <<"i", "d">>
    ELSE IF data.type = <<>> THEN <<"t", "y", "p", "e">>
    ELSE IF data.field = <<>> THEN <<"f", "i", "e", "l", "d">>
    ELSE IF data.definition = <<>> THEN <<"d", "e", "f", "i", "n", "i", "t", "i", "o", "n">>
    ELSE <<>>

\* the file was read and its data lacks a required field
LacksRequired(file) ==
    /\ file.kind = "text"
    /\ EmptyRequired(parse_model_file(file).value) # <<>>

\* the files the running or the last load_all_models call is done with
FilesDone ==
    IF loading = "Idle" THEN {}
    ELSE IF loading \in {"Loaded", "Reloaded"} THEN 1..Len(directory)
    ELSE 1..(next_file - 1)

\* the model is one a ThinkingModel construction lets through
WellFormed(model) ==
    /\ model.id # <<>>
    /\ model.type # <<>>
    /\ model.field # <<>>
    /\ model.definition # <<>>
    /\ model.type \in ModelTypes

\* C21: at every point of every sequence of load_all_models calls, each
\* ThinkingModel of the index has a non-empty id, type, field and definition
\* and a type that is solve or explain, and is the only entry under its id;
\* a file whose data lacks a required field is turned down by the validation
\* of the data, before a ThinkingModel is constructed from it, and is not
\* indexed.
C21_IndexWellFormed ==
    /\ \A n \in 1..Len(models) : WellFormed(models[n])
    /\ \A n, k \in 1..Len(models) : models[n].id = models[k].id => n = k
    /\ \A i \in FilesDone :
          LacksRequired(directory[i])
              => \E k \in 1..Len(failures) :
                    failures[k] =
                        Failure(directory[i],
                            MissingField(
                                EmptyRequired(parse_model_file(directory[i]).value),
                                directory[i].path))

\* a load that met a file with an invalid type, one without <id> and a
\* valid one returned an index with the valid one alone
C21_Witness ==
    /\ LoadReturned
    /\ directory = <<FileBadType, FileNoId, FileB>>
    /\ models = <<ModelOf(FileB)>>
    /\ Len(failures) = 2
    /\ failures[2] = Failure(FileNoId, MissingField(<<"i", "d">>, FileNoId.path))

\* ------------------------------------------------------------------------
\* load_single_model on model files of every layout
\* ------------------------------------------------------------------------

\* most lines of text a single-valued block holds
MaxContentLines == 2
\* most lines the example section of a file has
MaxExampleLines == 5

\* lines of text, without their line end
TextLines == { <<"x">>, <<" ", "y">>, <<"p", "|", "q">> }

\* the lines an example section is made of, without their line end
ExampleLines == { OpenTag(Example), CloseTag(Example), <<"e", "1">>, <<"e", "2">> }

\* how a block is laid out: the tags on lines of their own, text after the
\* opening tag, text before the closing tag, or all on one line
Layouts == {"lines", "opens", "closes", "one line"}

\* the lines of the block of tag that holds the lines of text, laid out
Laid(tag, text, layout) ==
    CASE layout = "lines" ->
            <<OpenTag(tag)>> \o text \o <<CloseTag(tag)>>
      [] layout = "opens" ->
            <<OpenTag(tag) \o Head(text)>> \o Tail(text) \o <<CloseTag(tag)>>
      [] layout = "closes" ->
            <<OpenTag(tag)>> \o SubSeq(text, 1, Len(text) - 1)
                \o <<text[Len(text)] \o CloseTag(tag)>>
      [] layout = "one line" ->
            <<OpenTag(tag) \o Head(text) \o CloseTag(tag)>>

\* the blocks of text a single-valued tag is given
Contents ==
    { text \in SeqsUpTo(TextLines, MaxContentLines) : text # <<>> }

\* the lines of a model file: <id>, <type> solve, <field> *, <define>, then
\* the example section
Shaped(id_lines, define_lines, example_lines) ==
    id_lines
        \o Laid(<<"t", "y", "p", "e">>, << <<"s", "o", "l", "v", "e">> >>, "lines")
        \o Laid(<<"f", "i", "e", "l", "d">>, << <<"*">> >>, "lines")
        \o define_lines \o example_lines

\* model files that differ in the layout and text of <define>, in the layout
\* of <id>, or in the example section
Shapes ==
    UNION { { Shaped(Laid(<<"i", "d">>, <<IdA>>, "lines"),
                     Laid(<<"d", "e", "f", "i", "n", "e">>, text, layout), <<>>) :
                  layout \in {l \in Layouts : l = "one line" => Len(text) = 1} } :
            text \in Contents }
    \cup
    { Shaped(Laid(<<"i", "d">>, text, layout), Laid(<<"d", "e", "f", "i", "n", "e">>, << <<"d", "1">> >>, "lines"), <<>>) :
          text \in {t \in Contents : Len(t) = 1}, layout \in Layouts }
    \cup
    { Shaped(Laid(<<"i", "d">>, <<IdA>>, "lines"), Laid(<<"d", "e", "f", "i", "n", "e">>, << <<"d", "1">> >>, "lines"),
             section) :
          section \in SeqsUpTo(ExampleLines, MaxExampleLines) }

\* the lines as readlines() gives them: each with its line end
Ended(lines) == [i \in 1..Len(lines) |-> lines[i] \o <<"\n">>]

\* the lines with the line number and '|' before each
Numbered(lines) ==
    [i \in 1..Len(lines) |-> IntStr(i) \o <<"|">> \o lines[i]]

\* the model files load_single_model is given: each shape as it is and with
\* numbered lines
ShapedFiles ==
    { ModelFile(<<"m", "o", "d", "e", "l", "s", "/", "m", ".", "t", "x", "t">>, "text", Ended(lines), <<>>) :
          lines \in Shapes \cup {Numbered(shape) : shape \in Shapes} }

\* a model file is on disk and load_single_model is about to be called
ParserInit ==
    /\ models = <<>>
    /\ provider = "stub"
    /\ pc = "Start"
    /\ query = <<>>
    /\ start_time = 0
    /\ now = 0
    /\ llm_reply = Pending
    /\ selection = Pending
    /\ calls = <<>>
    /\ outcome = Pending
    /\ GatewayIdle
    /\ LoaderIdle
    /\ parked = NoCall
    /\ file_path \in ShapedFiles
    /\ loaded = Pending
    /\ WebIdle

\* load_single_model(file_path) returns the ThinkingModel or raises
LoadSingleModel ==
    /\ file_path # <<>>
    /\ loaded = Pending
    /\ loaded' = load_single_model(file_path)
    /\ UNCHANGED <<queryVars, gatewayVars, loaderVars, parked, file_path, webVars>>

ParserNext == LoadSingleModel

ParserSpec == ParserInit /\ [][ParserNext]_vars

\* ------------------------------------------------------------------------
\* C22
\* ------------------------------------------------------------------------

RECURSIVE Flat(_)
\* the text of a file: its lines one after the other
Flat(lines) == IF lines = <<>> THEN <<>> ELSE Head(lines) \o Flat(Tail(lines))

\* the text between the first opening marker of tag and the closing marker
\* that follows it, trimmed
TagText(text, tag) ==
    Strip(BeforeFirst(AfterFirst(text, OpenTag(tag)), CloseTag(tag)))

RECURSIVE ExampleTexts(_)
\* the trimmed text of each <example> ... </example> of the text, in order
ExampleTexts(text) ==
    IF ~Contains(text, OpenTag(Example)) THEN <<>>
    ELSE IF ~Contains(AfterFirst(text, OpenTag(Example)), CloseTag(Example))
    THEN <<>>
    ELSE <<TagText(text, Example)>>
            \o ExampleTexts(AfterFirst(AfterFirst(text, OpenTag(Example)),
                                       CloseTag(Example)))

\* no line of the file holds a '|'
NoBar(lines) == \A i \in 1..Len(lines) : ~Contains(lines[i], <<"|">>)

\* every tag of the file is on a line of its own
TagsOnOwnLines(lines) ==
    \A i \in 1..Len(lines) :
        Contains(lines[i], <<"<">>)
            => \E tag \in {<<"i", "d">>, <<"t", "y", "p", "e">>, <<"f", "i", "e", "l", "d">>, <<"d", "e", "f", "i", "n", "e">>, Example} :
                   lines[i] \in {OpenTag(tag) \o <<"\n">>, CloseTag(tag) \o <<"\n">>}

\* the <example> and </example> lines of the file, in order
ExampleMarks(lines) ==
    LET isMark(line) ==
            line \in {OpenTag(Example) \o <<"\n">>, CloseTag(Example) \o <<"\n">>}
    IN  SelectSeq(lines, isMark)

\* the example blocks of the file are closed one after the other and each
\* holds a line of text at least
ExamplesBracketed(lines) ==
    /\ Len(ExampleMarks(lines)) % 2 = 0
    /\ \A k \in 1..Len(ExampleMarks(lines)) :
          ExampleMarks(lines)[k] =
              (IF k % 2 = 1 THEN OpenTag(Example) ELSE CloseTag(Example)) \o <<"\n">>
    /\ \A i \in 1..(Len(lines) - 1) :
          lines[i] = OpenTag(Example) \o <<"\n">>
              => lines[i + 1] # CloseTag(Example) \o <<"\n">>

\* a valid model file in its plainest form: no line prefix, no '|', every
\* tag on a line of its own, every example block closed and not empty
PlainValid(lines) ==
    /\ NoBar(lines)
    /\ TagsOnOwnLines(lines)
    /\ ExamplesBracketed(lines)

\* the model whose fields are the texts between the markers
ModelBetweenMarkers(lines) ==
    [id |-> TagText(Flat(lines), <<"i", "d">>),
     type |-> TagText(Flat(lines), <<"t", "y", "p", "e">>),
     field |-> TagText(Flat(lines), <<"f", "i", "e", "l", "d">>),
     definition |-> TagText(Flat(lines), <<"d", "e", "f", "i", "n", "e">>),
     examples |-> ExampleTexts(Flat(lines))]

\* C22: for a valid model file, load_single_model returns as id, type, field,
\* definition and as each example exactly the text between the opening and
\* the closing marker, trimmed at both ends, with the line breaks inside a
\* text of several lines as they are in the file.
C22_ContentPreserved ==
    (loaded # Pending /\ PlainValid(file_path.lines))
        => loaded = Return(ModelBetweenMarkers(file_path.lines))

\* ------------------------------------------------------------------------
\* C23
\* ------------------------------------------------------------------------

\* every line of the file starts with its line number and a '|'
IsNumbered(lines) ==
    \A i \in 1..Len(lines) : StartsWith(lines[i], IntStr(i) \o <<"|">>)

\* the file without the line numbers
Unnumbered(lines) ==
    [i \in 1..Len(lines) |-> AfterFirst(lines[i], <<"|">>)]

\* C23: a model file with a `linenum|` prefix on every line loads as the same
\* file without the prefixes does: the same outcome, with the same id, type,
\* field, definition and examples, also when the text of a tag holds a '|'.
C23_PrefixTolerant ==
    (loaded # Pending /\ IsNumbered(file_path.lines))
        => loaded = load_single_model(
                        ModelFile(file_path.path, "text",
                                  Unnumbered(file_path.lines), <<>>))

\* ------------------------------------------------------------------------
\* C24
\* ------------------------------------------------------------------------

\* the IDs of an index
IdsOf(index) == {index[n].id : n \in 1..Len(index)}

\* two indexes hold the same IDs and under each ID a model with the same
\* type, field, definition and examples
SameContents(one, other) ==
    /\ IdsOf(one) = IdsOf(other)
    /\ \A n \in 1..Len(one), k \in 1..Len(other) :
          one[n].id = other[k].id
              => /\ one[n].type = other[k].type
                 /\ one[n].field = other[k].field
                 /\ one[n].definition = other[k].definition
                 /\ one[n].examples = other[k].examples

\* C24: load_all_models is idempotent: a call that follows a call on the
\* same directory, listed in the same order, returns an index with the IDs
\* the first returned and, under each ID, the same type, field, definition
\* and examples.
C24_Idempotent ==
    loading = "Reloaded" => SameContents(models, previous)

\* the second call returned the two models the first had returned, having
\* skipped the same duplicate and the same file without <id>
C24_Witness ==
    /\ loading = "Reloaded"
    /\ Len(directory) = MaxFiles
    /\ \E i, j, k \in 1..Len(directory) :
          /\ directory[i] = FileB
          /\ directory[j] = FileA2
          /\ directory[k] = FileA
          /\ j < k
    /\ previous = models
    /\ IdsOf(models) = {IdA, IdB}
    /\ \E n \in 1..Len(models) : models[n] = ModelOf(FileA2)
    /\ Len(failures) = 1

\* ------------------------------------------------------------------------
\* The web application (src/src/web/app.py): startup_event and the two
\* query endpoints. Request bodies are those FastAPI lets through to the
\* handlers; times and timestamps are left out.
\* ------------------------------------------------------------------------

\* most queries of a batch request
MaxBatch == 2

\* what os.getenv returns for a variable: None when it is not set, the
\* empty string, or a text
EnvironValues == {NoneVal, <<>>, <<"x">>}

\* `if api_url or gemini_api_key`: one of the two variables is set to a
\* text that is not empty
LLMConfigured(env) ==
    \E name \in EnvironNames : env[name] \notin {NoneVal, <<>>}

\* the detail of the 503 of both query endpoints
NotInitializedDetail ==
    <<"Q", "u", "e", "r", "y", " ", "p", "r", "o", "c", "e", "s", "s",
       "o", "r", " ", "n", "o", "t", " ", "i", "n", "i", "t", "i", "a",
       "l", "i", "z", "e", "d", ".", " ", "P", "l", "e", "a", "s", "e",
       " ", "c", "o", "n", "f", "i", "g", "u", "r", "e", " ", "L", "L",
       "M", "_", "A", "P", "I", "_", "U", "R", "L", " ", "a", "n", "d",
       " ", "L", "L", "M", "_", "A", "P", "I", "_", "K", "E", "Y", ".">>

\* a response without a body of its own
NoContent == [kind |-> "none"]

\* raise HTTPException(status_code, detail), as the client sees it
HTTPException(path, request, status_code, detail) ==
    [path |-> path, request |-> request, status_code |-> status_code,
     detail |-> detail, response |-> NoContent]

\* a handler returns its response model: status 200
Ok(path, request, body) ==
    [path |-> path, request |-> request, status_code |-> 200,
     detail |-> <<>>, response |-> body]

\* the result message of the websocket endpoint: the fields of the
\* QueryResult as they are, without validation
WsResult(qr) ==
    [type |-> "result", query |-> qr.query,
     selected_models |-> qr.selected_models, solution |-> qr.solution,
     processing_time |-> qr.processing_time, error |-> qr.error]

\* the error message of the websocket endpoint while query_processor is
\* None
NotConfiguredError ==
    <<"Q", "u", "e", "r", "y", " ", "p", "r", "o", "c", "e", "s",
           "s", "o", "r", " ", "n", "o", "t", " ", "c", "o", "n", "f",
           "i", "g", "u", "r", "e", "d", ".", " ", "P", "l", "e", "a",
           "s", "e", " ", "s", "e", "t", " ", "L", "L", "M", "_", "A",
           "P", "I", "_", "U", "R", "L", " ", "a", "n", "d", " ", "L",
           "L", "M", "_", "A", "P", "I", "_", "K", "E", "Y", ".">>

\* the ValidationError pydantic raises for a solution that is None; the
\* text is the library's: that of pydantic 1, or that of pydantic 2
\* without its last line, which names the version
ValidationError(version) ==
    IF version = "1"
    THEN Exc("ValidationError",
        <<"1", " ", "v", "a", "l", "i", "d", "a", "t", "i", "o", "n",
           " ", "e", "r", "r", "o", "r", " ", "f", "o", "r", " ", "Q",
           "u", "e", "r", "y", "R", "e", "s", "p", "o", "n", "s", "e",
           "\n", "s", "o", "l", "u", "t", "i", "o", "n", "\n", " ", " ",
           "n", "o", "n", "e", " ", "i", "s", " ", "n", "o", "t", " ",
           "a", "n", " ", "a", "l", "l", "o", "w", "e", "d", " ", "v",
           "a", "l", "u", "e", " ", "(", "t", "y", "p", "e", "=", "t",
           "y", "p", "e", "_", "e", "r", "r", "o", "r", ".", "n", "o",
           "n", "e", ".", "n", "o", "t", "_", "a", "l", "l", "o", "w",
           "e", "d", ")">>)
    ELSE Exc("ValidationError",
        <<"1", " ", "v", "a", "l", "i", "d", "a", "t", "i", "o", "n",
           " ", "e", "r", "r", "o", "r", " ", "f", "o", "r", " ", "Q",
           "u", "e", "r", "y", "R", "e", "s", "p", "o", "n", "s", "e",
           "\n", "s", "o", "l", "u", "t", "i", "o", "n", "\n", " ", " ",
           "I", "n", "p", "u", "t", " ", "s", "h", "o", "u", "l", "d",
           " ", "b", "e", " ", "a", " ", "v", "a", "l", "i", "d", " ",
           "s", "t", "r", "i", "n", "g", " ", "[", "t", "y", "p", "e",
           "=", "s", "t", "r", "i", "n", "g", "_", "t", "y", "p", "e",
           ",", " ", "i", "n", "p", "u", "t", "_", "v", "a", "l", "u",
           "e", "=", "N", "o", "n", "e", ",", " ", "i", "n", "p", "u",
           "t", "_", "t", "y", "p", "e", "=", "N", "o", "n", "e", "T",
           "y", "p", "e", "]">>)

\* QueryResponse(...) of a QueryResult, without its timestamp: the model
\* is validated, and a solution that is no str raises
QueryResponse(qr, version) ==
    IF qr.solution = NoneVal THEN Raise(ValidationError(version))
    ELSE Return([query |-> qr.query, selected_models |-> qr.selected_models,
                 solution |-> qr.solution,
                 processing_time |-> qr.processing_time, error |-> qr.error])

\* the entry of the batch response for a query: its QueryResponse, or the
\* one the except clause of the loop appends
BatchEntry(qr, version) ==
    IF QueryResponse(qr, version).kind = "return"
    THEN QueryResponse(qr, version).value
    ELSE [query |-> qr.query, selected_models |-> <<>>, solution |-> <<>>,
          processing_time |-> 0, error |-> ValidationError(version).msg]

\* the texts of the 500 of POST /api/query and of the status message of
\* the websocket endpoint
QueryErrorPrefix ==
    <<"E", "r", "r", "o", "r", " ", "p", "r", "o", "c", "e", "s",
           "s", "i", "n", "g", " ", "q", "u", "e", "r", "y", ":", " ">>
ProcessingMessage ==
    <<"P", "r", "o", "c", "e", "s", "s", "i", "n", "g", " ", "q",
           "u", "e", "r", "y", ".", ".", ".">>

\* the status message of the websocket endpoint
WsStatus(q) ==
    [type |-> "status", message |-> ProcessingMessage, query |-> q]

\* `not result.error`: the error is None or the empty string
Successful(qr) == qr.error \in {NoneVal, <<>>}

\* how the gateway ends the selection call and the call after it, for the
\* queries of the web application: a model and a solution text, a model
\* and None for a solution, no model and a fallback that raises
WebReplies ==
    { <<Return(<<IdA>>), Return(<<"o", "k">>)>>,
      <<Return(<<IdA>>), Return(NoneVal)>>,
      <<Return(<<>>), Raise(Exc("RuntimeError", <<"b", "o", "o", "m">>))>> }

\* the indexes startup_event loads: an empty models directory, or one that
\* holds the model a
WebIndexes == {ms \in Indexes : Len(ms) <= 1 /\ \A i \in 1..Len(ms) : ms[i].id = IdA}

\* the queries of the messages on the websocket: the empty query, which a
\* message without a query field stands for too
WsQueries == { <<>> }

\* the bodies of a batch request
Batches == SeqsUpTo(Queries, MaxBatch)

\* BatchQueryResponse(...) of the results of the loop
BatchQueryResponse(results) ==
    [results |-> results,
     total_queries |-> Len(results),
     successful_queries |->
         Cardinality({i \in 1..Len(results) : Successful(results[i])}),
     total_processing_time |-> 0]

RECURSIVE BatchCalls(_, _, _)
\* the gateway calls of the loop of process_batch_queries, in order
BatchCalls(queries, index, replies) ==
    IF queries = <<>> THEN <<>>
    ELSE CallsAlone(Head(queries), index, Head(replies))
            \o BatchCalls(Tail(queries), index, Tail(replies))

\* a faulty variant: the guard looks at model_parser, which startup_event
\* always sets
NotInitialized_ParserChecked(processor) == FALSE

\* `if not query_processor`
NotInitialized(processor) == processor = "None"

\* the server process starts
WebInit ==
    /\ models = <<>>
    /\ provider = "stub"
    /\ pc = "Start"
    /\ query = <<>>
    /\ start_time = 0
    /\ now = 0
    /\ llm_reply = Pending
    /\ selection = Pending
    /\ calls = <<>>
    /\ outcome = Pending
    /\ GatewayIdle
    /\ LoaderIdle
    /\ parked = NoCall
    /\ ParserIdle
    /\ environ \in [EnvironNames -> EnvironValues]
    /\ app = "Starting"
    /\ query_processor = "None"
    /\ exchange = NoExchange
    /\ pydantic_version \in {"1", "2"}
    /\ socket = NoSocket

\* startup_event with neither LLM_API_URL nor GEMINI_API_KEY set to a text
\* that is not empty: the models are loaded, query_processor stays None
StartupWithoutLLM ==
    /\ app = "Starting"
    /\ ~LLMConfigured(environ)
    /\ models' \in WebIndexes
    /\ app' = "Serving"
    /\ UNCHANGED <<provider, pc, query, start_time, now, llm_reply,
                   selection, calls, outcome>>
    /\ UNCHANGED <<gatewayVars, loaderVars, parked, parserVars, environ,
                   query_processor, exchange, pydantic_version, socket>>

\* startup_event with one of them set: get_llm_client() returns and the
\* QueryProcessor is made
StartupWithLLM ==
    /\ app = "Starting"
    /\ LLMConfigured(environ)
    /\ models' \in WebIndexes
    /\ query_processor' = "QueryProcessor"
    /\ app' = "Serving"
    /\ UNCHANGED <<provider, pc, query, start_time, now, llm_reply,
                   selection, calls, outcome>>
    /\ UNCHANGED <<gatewayVars, loaderVars, parked, parserVars, environ,
                   exchange, pydantic_version, socket>>

\* startup_event raises and the server does not start: ModelParser() raised
\* (the mkdir of its models directory failed) before a model was loaded,
\* whatever the variables are, or get_llm_client() raised after the models
\* were loaded (the configuration object has no llm_provider, or the client
\* could not be made)
StartupFails ==
    /\ app = "Starting"
    /\ \/ models' = models
       \/ LLMConfigured(environ) /\ models' \in WebIndexes
    /\ app' = "StartupFailed"
    /\ UNCHANGED <<provider, pc, query, start_time, now, llm_reply,
                   selection, calls, outcome>>
    /\ UNCHANGED <<gatewayVars, loaderVars, parked, parserVars, environ,
                   query_processor, exchange, pydantic_version, socket>>

\* POST /api/query while query_processor is None
PostQueryUnavailable ==
    /\ app = "Serving"
    /\ NotInitialized(query_processor)
    /\ \E q \in Queries :
          exchange' = HTTPException("/api/query", [query |-> q], 503,
                                    NotInitializedDetail)
    /\ UNCHANGED <<queryVars, gatewayVars, loaderVars, parked, parserVars,
                   environ, app, query_processor, pydantic_version, socket>>

\* POST /api/query with a QueryProcessor: process_query runs and its result
\* is returned; when it does not validate as a QueryResponse, the except
\* clause of the handler answers 500
PostQueryProcessed ==
    /\ app = "Serving"
    /\ ~NotInitialized(query_processor)
    /\ \E q \in Queries, replies \in WebReplies :
          /\ exchange' =
                IF QueryResponse(RunAlone(q, models, replies).value,
                                 pydantic_version).kind = "raise"
                THEN HTTPException("/api/query", [query |-> q], 500,
                                   QueryErrorPrefix
                                       \o ValidationError(pydantic_version).msg)
                ELSE Ok("/api/query", [query |-> q],
                        QueryResponse(RunAlone(q, models, replies).value,
                                      pydantic_version).value)
          /\ calls' = CallsAlone(q, models, replies)
    /\ UNCHANGED <<models, provider, pc, query, start_time, now, llm_reply,
                   selection, outcome>>
    /\ UNCHANGED <<gatewayVars, loaderVars, parked, parserVars, environ, app,
                   query_processor, pydantic_version, socket>>

\* POST /api/query/batch while query_processor is None
PostBatchUnavailable ==
    /\ app = "Serving"
    /\ NotInitialized(query_processor)
    /\ \E queries \in Batches :
          exchange' = HTTPException("/api/query/batch", [queries |-> queries],
                                    503, NotInitializedDetail)
    /\ UNCHANGED <<queryVars, gatewayVars, loaderVars, parked, parserVars,
                   environ, app, query_processor, pydantic_version, socket>>

\* POST /api/query/batch with a QueryProcessor: process_query runs for one
\* query after the other; a result that does not validate as a
\* QueryResponse is answered with an error entry
PostBatchProcessed ==
    /\ app = "Serving"
    /\ ~NotInitialized(query_processor)
    /\ \E queries \in Batches :
          \E replies \in [1..Len(queries) -> WebReplies] :
              /\ exchange' =
                    Ok("/api/query/batch", [queries |-> queries],
                       BatchQueryResponse(
                           [i \in 1..Len(queries) |->
                               BatchEntry(RunAlone(queries[i], models,
                                                   replies[i]).value,
                                          pydantic_version)]))
              /\ calls' = BatchCalls(queries, models, replies)
    /\ UNCHANGED <<models, provider, pc, query, start_time, now, llm_reply,
                   selection, outcome>>
    /\ UNCHANGED <<gatewayVars, loaderVars, parked, parserVars, environ, app,
                   query_processor, pydantic_version, socket>>

\* a {"type": "query"} message on /ws while query_processor is None: an
\* error message is sent and the loop goes on
WsQueryUnavailable ==
    /\ app = "Serving"
    /\ NotInitialized(query_processor)
    /\ ~socket.pending
    /\ \E q \in WsQueries :
          socket' = [request |-> [type |-> "query", query |-> q],
                     sent |-> <<[type |-> "error",
                                 error |-> NotConfiguredError]>>,
                     pending |-> FALSE]
    /\ UNCHANGED <<queryVars, gatewayVars, loaderVars, parked, parserVars,
                   environ, app, query_processor, exchange,
                   pydantic_version>>

\* a {"type": "query"} message on /ws with a QueryProcessor: the status
\* message is sent; at this await the handler gives way to the event loop,
\* and other requests are handled before it goes on
WsStatusSent ==
    /\ app = "Serving"
    /\ ~NotInitialized(query_processor)
    /\ ~socket.pending
    /\ \E q \in WsQueries :
          socket' = [request |-> [type |-> "query", query |-> q],
                     sent |-> <<WsStatus(q)>>,
                     pending |-> TRUE]
    /\ UNCHANGED <<queryVars, gatewayVars, loaderVars, parked, parserVars,
                   environ, app, query_processor, exchange,
                   pydantic_version>>

\* the handler of /ws goes on after the status message: process_query runs
\* and its result is sent as it is
WsQueryProcessed ==
    /\ app = "Serving"
    /\ socket.pending
    /\ \E replies \in WebReplies :
          /\ socket' =
                [socket EXCEPT
                    !.sent = Append(@,
                        WsResult(RunAlone(socket.request.query, models,
                                          replies).value)),
                    !.pending = FALSE]
          /\ calls' = CallsAlone(socket.request.query, models, replies)
    /\ UNCHANGED <<models, provider, pc, query, start_time, now, llm_reply,
                   selection, outcome>>
    /\ UNCHANGED <<gatewayVars, loaderVars, parked, parserVars, environ, app,
                   query_processor, exchange, pydantic_version>>

WebNext ==
    \/ StartupWithoutLLM
    \/ StartupWithLLM
    \/ StartupFails
    \/ PostQueryUnavailable
    \/ PostQueryProcessed
    \/ PostBatchUnavailable
    \/ PostBatchProcessed
    \/ WsQueryUnavailable
    \/ WsStatusSent
    \/ WsQueryProcessed

WebSpec == WebInit /\ [][WebNext]_vars

\* ------------------------------------------------------------------------
\* C25
\* ------------------------------------------------------------------------

\* the words the test of the repository looks for in the detail
NotInitializedWords ==
    <<"n", "o", "t", " ", "i", "n", "i", "t", "i", "a", "l", "i", "z", "e", "d">>

\* C25: when the web application started without an LLM configured (neither
\* variable set to a text that is not empty) query_processor is unset, and
\* while it is, every POST to /api/query and to /api/query/batch that
\* reaches its handler is answered with status 503 and a detail that says
\* the query processor is not initialized; no query is processed and no
\* gateway call is made (a query on the websocket is answered with one
\* error message).
C25_Unavailable ==
    /\ (app = "Serving" /\ ~LLMConfigured(environ)) => query_processor = "None"
    /\ (app = "Serving" /\ query_processor = "None")
          => /\ calls = <<>>
             /\ pc = "Start"
             /\ outcome = Pending
             /\ exchange # NoExchange
                   => /\ exchange.path \in {"/api/query", "/api/query/batch"}
                      /\ exchange.status_code = 503
                      /\ Contains(LowerStr(exchange.detail),
                                  NotInitializedWords)
                      /\ exchange.response = NoContent
             /\ socket # NoSocket
                   => /\ ~socket.pending
                      /\ Len(socket.sent) = 1
                      /\ socket.sent[1].type = "error"

\* a batch of two queries was posted to the application that started
\* without an LLM, and was answered with 503
C25_Witness ==
    /\ app = "Serving"
    /\ ~LLMConfigured(environ)
    /\ environ["LLM_API_URL"] = <<>>
    /\ query_processor = "None"
    /\ exchange.path = "/api/query/batch"
    /\ Len(exchange.request.queries) = 2
    /\ exchange.status_code = 503
    /\ exchange.detail = NotInitializedDetail
    /\ calls = <<>>

\* ------------------------------------------------------------------------
\* C26
\* ------------------------------------------------------------------------

\* the line opens the tag and closes it after that
OpensAndCloses(line, tag) ==
    /\ Contains(line, OpenTag(tag))
    /\ Contains(AfterFirst(line, OpenTag(tag)), CloseTag(tag))

\* the field of a ThinkingModel that a tag fills
FieldOf(model, tag) ==
    IF tag = <<"i", "d">> THEN model.id ELSE model.definition

\* C26: when <id> or <define> is opened and closed on one line of a file,
\* the field is the text after the opening and before the closing marker on
\* that line, trimmed, and holds nothing of the lines that follow.
C26_SameLineTag ==
    \A tag \in {<<"i", "d">>, <<"d", "e", "f", "i", "n", "e">>} :
        \A i \in 1..Len(file_path.lines) :
            (/\ loaded # Pending
             /\ NoBar(file_path.lines)
             /\ OpensAndCloses(file_path.lines[i], tag))
                => /\ loaded.kind = "return"
                   /\ FieldOf(loaded.value, tag)
                          = TagText(file_path.lines[i], tag)

\* ------------------------------------------------------------------------
\* C27
\* ------------------------------------------------------------------------

\* line i of the file is the opening, or the closing, line of an example
IsOpen(lines, i) == LineContent(lines[i]) = OpenTag(Example) \o <<"\n">>
IsClose(lines, i) == LineContent(lines[i]) = CloseTag(Example) \o <<"\n">>

\* the line that opens the block line j closes: the last <example> before
\* it with no </example> in between, or 0 when j closes nothing
OpenerOf(lines, j) ==
    LET openers == {i \in 1..(j - 1) :
                       /\ IsOpen(lines, i)
                       /\ \A k \in (i + 1)..(j - 1) :
                             ~IsOpen(lines, k) /\ ~IsClose(lines, k)}
    IN  IF openers = {} THEN 0 ELSE CHOOSE i \in openers : TRUE

\* the closing lines of the closed example blocks of the file, in file order
ClosedBlocks(lines) ==
    LET closes(j) == IsClose(lines, j) /\ OpenerOf(lines, j) # 0
    IN  SelectSeq([j \in 1..Len(lines) |-> j], closes)

\* those of them that hold a line at least between their markers
FilledBlocks(lines) ==
    LET filled(j) == j - OpenerOf(lines, j) > 1
    IN  SelectSeq(ClosedBlocks(lines), filled)

\* a text without its line breaks
DropBreaks(text) ==
    LET kept(c) == c # "\n"
    IN  SelectSeq(text, kept)

\* the text of the lines of the block that line j closes, line breaks apart
BlockText(lines, j) ==
    DropBreaks(Flat([k \in 1..(j - OpenerOf(lines, j) - 1) |->
                        LineContent(lines[OpenerOf(lines, j) + k])]))

\* the examples are the texts of the blocks, one for one and in order
ExamplesAre(examples, lines, blocks) ==
    /\ Len(examples) = Len(blocks)
    /\ \A n \in 1..Len(blocks) :
          n <= Len(examples)
              => DropBreaks(examples[n]) = BlockText(lines, blocks[n])

\* C27 as it is stated: the examples list holds one entry per closed
\* <example> block, in file order; a block still open at the end of the
\* file gives no entry, and an <example> that opens before the one before it
\* was closed discards the lines gathered so far.
C27_Original ==
    (loaded # Pending /\ loaded.kind = "return")
        => ExamplesAre(loaded.value.examples, file_path.lines,
                       ClosedBlocks(file_path.lines))

\* C27, amended: the examples list holds one entry per closed <example>
\* block that holds at least one line between its markers, in file order; a
\* closed block with no line in it gives no entry; a block still open at
\* the end of the file gives no entry, and an <example> that opens before
\* the one before it was closed discards the lines gathered so far.
C27_Amended ==
    (loaded # Pending /\ loaded.kind = "return")
        => ExamplesAre(loaded.value.examples, file_path.lines,
                       FilledBlocks(file_path.lines))

\* <example>, e1, <example>, e2, </example>: the one example is e2
C27_Witness ==
    /\ loaded # Pending
    /\ loaded.kind = "return"
    /\ Len(file_path.lines) = 17
    /\ IsOpen(file_path.lines, 13)
    /\ IsOpen(file_path.lines, 15)
    /\ IsClose(file_path.lines, 17)
    /\ LineContent(file_path.lines[14]) = <<"e", "1", "\n">>
    /\ loaded.value.examples = << <<"e", "2">> >>

\* ------------------------------------------------------------------------
\* C28
\* ------------------------------------------------------------------------

\* the selection returned IDs of which some are keys of the index and some
\* are not
PartlyResolved ==
    /\ selection # Pending
    /\ SelectionReturned
    /\ Resolved # {}
    /\ \E n \in 1..Len(selection.value) : selection.value[n] \notin IndexIds

\* where in the index the model with this ID is
PositionOf(id) == CHOOSE p \in 1..Len(models) : models[p].id = id

\* records are the id, type, definition and examples of the indexed models
\* with the resolved IDs, each once and in the order of the index
ResolvedInIndexOrder(records) ==
    /\ Len(records) = Cardinality(Resolved)
    /\ \A i \in 1..Len(records) :
          /\ records[i].id \in Resolved
          /\ records[i] =
                [id |-> models[PositionOf(records[i].id)].id,
                 type |-> models[PositionOf(records[i].id)].type,
                 definition |-> models[PositionOf(records[i].id)].definition,
                 examples |-> models[PositionOf(records[i].id)].examples]
    /\ \A i, j \in 1..Len(records) :
          i < j => PositionOf(records[i].id) < PositionOf(records[j].id)

\* C28: when some but not all of the selected IDs are keys of the index,
\* process_query calls request_solution with exactly the records of the
\* resolved IDs, each once and in index order, and, once request_solution
\* returned, its result carries the whole selection list, unresolved IDs
\* included, and no error.
C28_PartialResolution ==
    (PartlyResolved /\ pc \in {"ProposeSolution", "Done"})
        => /\ Len(CallsMade) = 2
           /\ CallsMade[2].op = "request_solution"
           /\ CallsMade[2].args.query = query
           /\ ResolvedInIndexOrder(CallsMade[2].args.selected_models)
           /\ (Done /\ LastOutcome.kind = "return")
                 => /\ outcome.kind = "return"
                    /\ Result.selected_models = selection.value
                    /\ Result.solution = LastOutcome.value
                    /\ Result.error = NoneVal

\* the index holds b then a, the selection is a, z, b, a: request_solution
\* got the records of b and a, and the result lists a, z, b, a
C28_Witness ==
    /\ Done
    /\ PartlyResolved
    /\ Len(models) = 2
    /\ models[1].id = IdB
    /\ selection.value = <<IdA, IdZ, IdB, IdA>>
    /\ Len(CallsMade[2].args.selected_models) = 2
    /\ CallsMade[2].args.selected_models[1].id = IdB
    /\ CallsMade[2].args.selected_models[2].id = IdA
    /\ LastOutcome.kind = "return"
    /\ Result.selected_models = <<IdA, IdZ, IdB, IdA>>
    /\ Result.error = NoneVal

\* ------------------------------------------------------------------------
\* C29
\* ------------------------------------------------------------------------

\* the gateway is one of the providers, not a stub
RealProvider == provider # "stub"

\* C29: with a provider as gateway, whose request_model_selection keeps of
\* the response only the candidate IDs it was given, and the index left
\* alone between the selection and the fetch, every selected ID is a key of
\* the index: process_query never takes the records-not-found branch and
\* never returns the "Model data not found" result.
C29_NotFoundUnreachable ==
    RealProvider
        => /\ (selection # Pending /\ SelectionReturned)
                 => /\ \A n \in 1..Len(selection.value) :
                          selection.value[n] \in IndexIds
                    /\ Branch(selection.value,
                              fetch_model_data(models, selection.value))
                          # "RecordsNotFound"
           /\ (Done /\ outcome.kind = "return")
                 => /\ Result.error # NotFoundError
                    /\ Result.solution # NotFoundSolution

\* the LLM listed z and a to a provider whose candidates are a alone: the
\* selection is a, its record was fetched and the solution returned
C29_Witness ==
    /\ RealProvider
    /\ Done
    /\ IndexIds = {IdA}
    /\ llm_reply = Pending
    /\ selection = Return(<<IdA>>)
    /\ Len(CallsMade) = 2
    /\ CallsMade[2].op = "request_solution"
    /\ Len(CallsMade[2].args.selected_models) = 1
    /\ outcome.kind = "return"
    /\ Result.error = NoneVal

\* ------------------------------------------------------------------------
\* process_query with the HTTP provider as gateway: every gateway call is a
\* generate_response call that runs the retry loop of _make_request
\* ------------------------------------------------------------------------

\* how session.post ends in this specification: a timeout, a body that is
\* no JSON, or a completion whose content lists no ID, or the ID a
HttpPosts ==
    { Raise(Timeout),
      Return(HttpResponse(200, <<"O", "K">>, Endpoint(ApiUrl), Raise(JSONDecodeError))),
      Return(HttpResponse(200, <<"O", "K">>, Endpoint(ApiUrl),
                          Return(ChatCompletion(JStr(JsonArray(<<>>)))))),
      Return(HttpResponse(200, <<"O", "K">>, Endpoint(ApiUrl),
                          Return(ChatCompletion(JStr(JsonArray(<<IdA>>)))))) }

\* _make_request is entered
RequestEvent == [ev |-> "request"]

\* a QueryProcessor over an index of at most one model and an OpenAIClient
\* of some max_retries; no query is in progress
HttpInit ==
    /\ models \in {ms \in Indexes : Len(ms) <= 1}
    /\ provider = "openai"
    /\ pc = "Start"
    /\ query = <<>>
    /\ start_time = 0
    /\ now = 0
    /\ llm_reply = Pending
    /\ selection = Pending
    /\ calls = <<>>
    /\ outcome = Pending
    /\ config \in {c \in Configs : c.retry_delay = DefaultConfig.retry_delay}
    /\ requests_version \in {"2.26", "2.27"}
    /\ step = "Idle"
    /\ attempt = 0
    /\ last_error = NoLastError
    /\ events = <<>>
    /\ result = Pending
    /\ response = Pending
    /\ connected = Pending
    /\ LoaderIdle
    /\ parked = NoCall
    /\ ParserIdle
    /\ WebIdle

\* the gateway call process_query has just logged runs: request_model_selection,
\* generate_response and request_solution each call generate_response once,
\* which calls _make_request, which enters its loop
HttpCalls ==
    /\ pc \in {"SelectModels", "DirectFallback", "ProposeSolution"}
    /\ step = "Idle"
    /\ events' = Append(events, RequestEvent)
    /\ last_error' = NoLastError
    /\ NextAttempt(0, NoLastError)
    /\ UNCHANGED <<config, requests_version>>
    /\ UNCHANGED <<queryVars, loaderVars, parked, parserVars, webVars>>

\* one pass of the loop: the try block ends; a result, or an exception the
\* loop does not catch, ends _make_request; a RequestException is kept as
\* last_error and the loop sleeps, goes on or is over
HttpAttempt ==
    /\ step = "Post"
    /\ \E post \in HttpPosts :
        /\ events' = Append(events, PostEvent(attempt, TryRequest(post)))
        /\ IF \/ TryRequest(post).kind = "return"
              \/ ~IsRequestException(TryRequest(post).exc, requests_version)
           THEN /\ MakeRequestEnds(TryRequest(post))
                /\ UNCHANGED <<attempt, last_error>>
           ELSE /\ last_error' = TryRequest(post).exc
                /\ IF SleepsAfter(attempt, config.max_retries)
                   THEN /\ step' = "Sleep"
                        /\ UNCHANGED <<attempt, result, response, connected>>
                   ELSE NextAttempt(attempt + 1, last_error')
    /\ UNCHANGED <<config, requests_version>>
    /\ UNCHANGED <<queryVars, loaderVars, parked, parserVars, webVars>>

\* the generate_response call of request_model_selection is over: the
\* selection is what request_model_selection makes of it
HttpSelects ==
    /\ pc = "SelectModels"
    /\ step = "Done"
    /\ llm_reply' = response
    /\ \E caller \in CallerFrames :
        selection' = request_model_selection(response, AvailableModels(models),
                                             SelectionFrames(caller))
    /\ calls' = Append(calls, CallEnd("request_model_selection", selection'))
    /\ pc' = "Selected"
    /\ step' = "Idle"
    /\ UNCHANGED <<models, provider, query, start_time, now, outcome>>
    /\ UNCHANGED <<config, requests_version, attempt, last_error, events,
                   result, response, connected>>
    /\ UNCHANGED <<loaderVars, parked, parserVars, webVars>>

\* the direct generate_response call is over
HttpDirectEnds ==
    /\ pc = "DirectFallback"
    /\ step = "Done"
    /\ calls' = Append(calls, CallEnd("generate_response", response))
    /\ outcome' = IF response.kind = "return"
                  THEN OnDirectReturn(query, response.value, start_time, now)
                  ELSE OnException(query, response.exc, start_time, now)
    /\ pc' = IF outcome'.kind = "raise" THEN "Raised" ELSE "Done"
    /\ step' = "Idle"
    /\ UNCHANGED <<models, provider, query, start_time, now, llm_reply, selection>>
    /\ UNCHANGED <<config, requests_version, attempt, last_error, events,
                   result, response, connected>>
    /\ UNCHANGED <<loaderVars, parked, parserVars, webVars>>

\* request_solution, which returns what its generate_response call returns,
\* is over
HttpSolutionEnds ==
    /\ pc = "ProposeSolution"
    /\ step = "Done"
    /\ calls' = Append(calls, CallEnd("request_solution", response))
    /\ outcome' = IF response.kind = "return"
                  THEN Return(SuccessResult(query, selection.value,
                                            response.value, start_time, now))
                  ELSE OnException(query, response.exc, start_time, now)
    /\ pc' = IF outcome'.kind = "raise" THEN "Raised" ELSE "Done"
    /\ step' = "Idle"
    /\ UNCHANGED <<models, provider, query, start_time, now, llm_reply, selection>>
    /\ UNCHANGED <<config, requests_version, attempt, last_error, events,
                   result, response, connected>>
    /\ UNCHANGED <<loaderVars, parked, parserVars, webVars>>

\* the records-not-found branch is left out: the selection of a provider
\* holds candidate IDs only, so the branch is never taken (see C29)
HttpNext ==
    \/ StartQuery
    \/ HttpCalls
    \/ HttpAttempt
    \/ Sleep
    \/ HttpSelects
    \/ SelectionRaised
    \/ NoneSelected
    \/ RecordsFound
    \/ HttpDirectEnds
    \/ HttpSolutionEnds

\* the code runs in one thread, every attempt of the transport returns or
\* fails and every sleep ends: a step that can be taken is taken
HttpQuerySpec == HttpInit /\ [][HttpNext]_vars /\ WF_vars(HttpNext)

\* ------------------------------------------------------------------------
\* C30
\* ------------------------------------------------------------------------

\* where in events a _make_request call starts
RequestsAt == {i \in 1..Len(events) : events[i].ev = "request"}

\* the network attempts of the call that starts at position i
AttemptsOf(i) ==
    Cardinality({j \in (i + 1)..Len(events) :
                    /\ events[j].ev = "post"
                    /\ \A k \in (i + 1)..j : events[k].ev # "request"})

\* the call that starts at position i is over
IsOver(i) ==
    \/ step \in {"Done", "Idle"}
    \/ \E j \in RequestsAt : j > i

\* with max_retries >= 1, every generate_response call makes at most
\* max_retries attempts and at least one once it is over, process_query
\* makes at most 2 gateway calls, each one generate_response call, and at
\* most 2 * max_retries attempts are made in all
AttemptsBounded ==
    config.max_retries >= 1
        => /\ \A i \in RequestsAt :
                 /\ AttemptsOf(i) <= config.max_retries
                 /\ IsOver(i) => AttemptsOf(i) >= 1
           /\ Len(CallsMade) <= 2
           /\ Cardinality(RequestsAt) <= Len(CallsMade)
           /\ Len(Posts) <= 2 * config.max_retries

\* C30: with the HTTP provider, max_retries >= 1 and a transport whose
\* every attempt returns or fails in the end, each generate_response call
\* makes between 1 and max_retries network attempts, and every
\* process_query call ends, after at most 2 gateway calls and so at most
\* 2 * max_retries network attempts.
C30_BoundedTermination == []AttemptsBounded /\ <>Done

\* max_retries is 3, both gateway calls used up their three attempts, six
\* in all, and process_query returned
C30_Witness ==
    /\ Done
    /\ config.max_retries = 3
    /\ Cardinality(RequestsAt) = 2
    /\ \A i \in RequestsAt : AttemptsOf(i) = 3
    /\ Len(Posts) = 6
    /\ outcome.kind = "return"

====
